---- MODULE Spec2Model ----
(***************************************************************************)
(* A model of the oopsy code generator (Cycling74/oopsy, RNBO flavour):    *)
(* the target normalizer of run(), the label resolution, the node graph    *)
(* built by generate_app() and the parameter policy.                       *)
(*                                                                         *)
(* Strings are sequences of one-character strings, so that prefix tests,   *)
(* the default Array.prototype.sort order and string concatenation are    *)
(* computed and not assumed.                                               *)
(***************************************************************************)
EXTENDS Integers, Sequences, FiniteSets, TLC

(***************************************************************************)
(* JavaScript values                                                       *)
(***************************************************************************)
\* the value of a missing property, and of a variable that was never assigned
undefined == <<"undefined">>

\* the JSON / JavaScript null
null == <<"null">>

\* the empty string
EmptyString == <<>>

\* ToBoolean on the values the model uses for names (strings, null, undefined)
Truthy(v) == v # undefined /\ v # null /\ v # EmptyString

\* a marker for the variables a specification does not use
Idle == <<"idle">>

(***************************************************************************)
(* Strings                                                                 *)
(***************************************************************************)
Digits == <<"0", "1", "2", "3", "4", "5", "6", "7", "8", "9">>

LowerCase == <<"a", "b", "c", "d", "e", "f", "g", "h", "i", "j", "k", "l", "m",
               "n", "o", "p", "q", "r", "s", "t", "u", "v", "w", "x", "y", "z">>

UpperCase == <<"A", "B", "C", "D", "E", "F", "G", "H", "I", "J", "K", "L", "M",
               "N", "O", "P", "Q", "R", "S", "T", "U", "V", "W", "X", "Y", "Z">>

Range(seq) == {seq[i] : i \in 1..Len(seq)}

IndexIn(seq, c) == CHOOSE i \in 1..Len(seq) : seq[i] = c

\* the UTF-16 code unit of a character: space 32, the double quote 34,
\* "." 46, digits 48..57, A..Z 65..90, "_" 95, a..z 97..122
Code(c) ==
    IF c = "_" THEN 95
    ELSE IF c = "." THEN 46
    ELSE IF c = " " THEN 32
    ELSE IF c = "\"" THEN 34
    ELSE IF \E i \in 1..Len(Digits) : Digits[i] = c THEN 47 + IndexIn(Digits, c)
    ELSE IF \E i \in 1..Len(UpperCase) : UpperCase[i] = c
         THEN 64 + IndexIn(UpperCase, c)
    ELSE 96 + IndexIn(LowerCase, c)

\* s < t for strings: comparison by code units, a proper prefix is smaller
RECURSIVE StrLess(_, _)
StrLess(s, t) ==
    IF t = <<>> THEN FALSE
    ELSE IF s = <<>> THEN TRUE
    ELSE IF Code(Head(s)) < Code(Head(t)) THEN TRUE
    ELSE IF Code(Head(s)) > Code(Head(t)) THEN FALSE
    ELSE StrLess(Tail(s), Tail(t))

IsPrefix(k, s) == Len(k) <= Len(s) /\ SubSeq(s, 1, Len(k)) = k

\* the decimal digits of a small non-negative integer
IntToStr(n) == IF n < 10 THEN <<Digits[n + 1]>>
               ELSE <<Digits[(n \div 10) + 1], Digits[(n % 10) + 1]>>

\* Array.prototype.sort() without comparator on an array of distinct strings:
\* ascending code-unit order
\* a variant that keeps the insertion order (the call of sort() left out)
InsertSorted_unsorted(k, sorted) == Append(sorted, k)

RECURSIVE InsertSorted(_, _)
InsertSorted(k, sorted) ==
    IF sorted = <<>> THEN <<k>>
    ELSE IF StrLess(k, Head(sorted)) THEN <<k>> \o sorted
    ELSE <<Head(sorted)>> \o InsertSorted(k, Tail(sorted))

RECURSIVE JsSort(_)
JsSort(keys) ==
    IF keys = <<>> THEN <<>>
    ELSE InsertSorted(keys[Len(keys)], JsSort(SubSeq(keys, 1, Len(keys) - 1)))

(***************************************************************************)
(* Label resolution: new RegExp(`^${k}_?(.+)?`).exec(label)                *)
(***************************************************************************)
\* whether the regular expression built from key k matches the label; the
\* keys of the model hold identifier characters only, so k is a literal
RegExpMatches(k, label) == IsPrefix(k, label)

\* match[1]: what follows the key and one optional underscore, undefined
\* when nothing follows
RegExpCapture(k, label) ==
    LET rest  == SubSeq(label, Len(k) + 1, Len(label))
        rest2 == IF rest # <<>> /\ Head(rest) = "_" THEN Tail(rest) ELSE rest
    IN  IF rest2 = <<>> THEN undefined ELSE rest2

\* match[1] || label
CaptureOrLabel(k, label) ==
    IF Truthy(RegExpCapture(k, label)) THEN RegExpCapture(k, label) ELSE label

\* a label table is [keys : the keys in insertion order, val : key -> name]
TableKeys(table) == table.keys

\* a variant of the fold in which the first matching key is kept
RECURSIVE ResolveFold_first(_, _, _, _)
ResolveFold_first(sorted, table, label, acc) ==
    IF sorted = <<>> THEN acc
    ELSE LET k == Head(sorted)
         IN  IF RegExpMatches(k, label) /\ ~Truthy(acc.key)
             THEN ResolveFold_first(Tail(sorted), table, label,
                                    [key |-> k, map |-> table.val[k],
                                     maplabel |-> CaptureOrLabel(k, label)])
             ELSE ResolveFold_first(Tail(sorted), table, label, acc)

\* Object.keys(table).sort().forEach(k => { if (match) { map = table[k];
\* maplabel = match[1] || label } }): the fold over the sorted keys; key is
\* the k of the last assignment
RECURSIVE ResolveFold(_, _, _, _)
ResolveFold(sorted, table, label, acc) ==
    IF sorted = <<>> THEN acc
    ELSE LET k == Head(sorted)
         IN  IF RegExpMatches(k, label)
             THEN ResolveFold(Tail(sorted), table, label,
                              [key |-> k, map |-> table.val[k],
                               maplabel |-> CaptureOrLabel(k, label)])
             ELSE ResolveFold(Tail(sorted), table, label, acc)

NoMatch == [key |-> undefined, map |-> undefined, maplabel |-> undefined]

ResolveLabel(table, label) ==
    ResolveFold(JsSort(TableKeys(table)), table, label, NoMatch)

\* s.replace(/"/g, "").trim(): the outlet tag without double quotes and
\* without leading and trailing spaces
RemoveQuotes(s) == SelectSeq(s, LAMBDA c : c # "\"")

RECURSIVE TrimLeft(_)
TrimLeft(s) == IF s # <<>> /\ Head(s) = " " THEN TrimLeft(Tail(s)) ELSE s

RECURSIVE TrimRight(_)
TrimRight(s) == IF s # <<>> /\ s[Len(s)] = " "
                THEN TrimRight(SubSeq(s, 1, Len(s) - 1)) ELSE s

OutletLabel(s) == TrimRight(TrimLeft(RemoveQuotes(s)))

\* label.match(/^(int|bool)(_(.*))?$/): the type token at the start of the
\* remaining label; match[1] is the token, match[3] what follows "token_"
TypeTokens == {<<"i", "n", "t">>, <<"b", "o", "o", "l">>}

TypeToken(label) ==
    IF \E t \in TypeTokens : label = t \/ IsPrefix(t \o <<"_">>, label)
    THEN CHOOSE t \in TypeTokens : label = t \/ IsPrefix(t \o <<"_">>, label)
    ELSE undefined

AfterTypeToken(label) ==
    LET t == TypeToken(label)
    IN  IF Len(label) > Len(t) + 1
        THEN SubSeq(label, Len(t) + 2, Len(label)) ELSE undefined

\* the parameter's forEach body: src, label and type are variables of the
\* enclosing function, assigned on every match; type is assigned only when
\* the remaining label carries a type token
RECURSIVE ResolveParamFold(_, _, _, _)
ResolveParamFold(sorted, table, pname, acc) ==
    IF sorted = <<>> THEN acc
    ELSE LET k      == Head(sorted)
             label1 == CaptureOrLabel(k, pname)
             typed  == TypeToken(label1) # undefined
             label2 == IF typed /\ Truthy(AfterTypeToken(label1))
                       THEN AfterTypeToken(label1) ELSE label1
         IN  IF RegExpMatches(k, pname)
             THEN ResolveParamFold(Tail(sorted), table, pname,
                      [key |-> k, src |-> table.val[k], label |-> label2,
                       type |-> IF typed THEN TypeToken(label1) ELSE acc.type])
             ELSE ResolveParamFold(Tail(sorted), table, pname, acc)

FloatType == <<"f", "l", "o", "a", "t">>

ResolveParam(table, pname) ==
    ResolveParamFold(JsSort(TableKeys(table)), table, pname,
                     [key |-> undefined, src |-> undefined, label |-> pname,
                      type |-> FloatType])

(***************************************************************************)
(* Numbers: a JavaScript number is a reduced fraction <<n, d>> with d > 0  *)
(***************************************************************************)
RECURSIVE Gcd(_, _)
Gcd(a, b) == IF b = 0 THEN a ELSE Gcd(b, a % b)

Abs(n) == IF n < 0 THEN -n ELSE n

Rat(n, d) ==
    LET g == Gcd(Abs(n), Abs(d))
        s == IF d < 0 THEN -1 ELSE 1
    IN  <<(s * n) \div g, (s * d) \div g>>

Num(n) == <<n, 1>>

RatSub(a, b) == Rat(a[1] * b[2] - b[1] * a[2], a[2] * b[2])

RatMul(a, b) == Rat(a[1] * b[1], a[2] * b[2])

RatDiv(a, b) == Rat(a[1] * b[2], a[2] * b[1])

RatLess(a, b) == a[1] * b[2] < b[1] * a[2]

\* ToBoolean of a number or a missing number: 0, null and undefined are falsy
NumTruthy(v) == IF v = undefined \/ v = null THEN FALSE ELSE v[1] # 0

\* Number.isInteger
IsInteger(v) == IF v = undefined \/ v = null THEN FALSE ELSE v[2] = 1

\* Math.pow(2, p)
Pow2(p) == IF p >= 0 THEN <<2 ^ p, 1>> ELSE <<1, 2 ^ (-p)>>

\* Math.round(Math.log2(x)) for x > 0: the p with 2^(p-1/2) <= x < 2^(p+1/2),
\* found on the squares, 2^(2p-1) <= x*x < 2^(2p+1)
RECURSIVE RoundLog2From(_, _)
RoundLog2From(xx, p) ==
    IF RatLess(xx, Pow2(2 * p - 1)) THEN RoundLog2From(xx, p - 1)
    ELSE IF ~RatLess(xx, Pow2(2 * p + 1)) THEN RoundLog2From(xx, p + 1)
    ELSE p

RoundLog2(x) == RoundLog2From(RatMul(x, x), 0)

(***************************************************************************)
(* Parameter policy                                                        *)
(***************************************************************************)
IntType == <<"i", "n", "t">>

BoolType == <<"b", "o", "o", "l">>

\* let ideal_steps = 100
ideal_steps == 100

\* analyze_json: the descriptor of a visible parameter
ParamDesc(param) ==
    [name |-> param.name, cindex |-> param.index, default |-> param.initialValue,
     min |-> param.minimum, max |-> param.maximum]

\* node.max = node.max || 1; node.min = node.min || 0;
\* node.default = node.default || 0; node.range = node.max - node.min
ParamMax(desc) == IF NumTruthy(desc.max) THEN desc.max ELSE Num(1)

ParamMin(desc) == IF NumTruthy(desc.min) THEN desc.min ELSE Num(0)

ParamDefault(desc) == IF NumTruthy(desc.default) THEN desc.default ELSE Num(0)

ParamRange(desc) == RatSub(ParamMax(desc), ParamMin(desc))

\* a variant of the step size that takes ranges above 3 for the musical and
\* the power-of-two steps
Stepsize_above3(type, min, max, default, range) ==
    LET first ==
          IF type = BoolType \/ type = IntType THEN Num(1)
          ELSE IF /\ RatLess(Num(3), range)
                  /\ IsInteger(max) /\ IsInteger(max) /\ IsInteger(default)
               THEN IF RatLess(range, Num(10)) THEN Rat(1, 12)
                    ELSE Pow2(RoundLog2(RatDiv(range, Num(ideal_steps))))
               ELSE undefined
    IN  IF ~NumTruthy(first) THEN RatDiv(range, Num(ideal_steps)) ELSE first

\* Math.floor(Math.log2(x)) for x > 0: the p with 2^p <= x < 2^(p+1)
RECURSIVE FloorLog2From(_, _)
FloorLog2From(x, p) ==
    IF RatLess(x, Pow2(p)) THEN FloorLog2From(x, p - 1)
    ELSE IF ~RatLess(x, Pow2(p + 1)) THEN FloorLog2From(x, p + 1)
    ELSE p

\* a variant of the step size that rounds the power of two down
Stepsize_floor(type, min, max, default, range) ==
    LET first ==
          IF type = BoolType \/ type = IntType THEN Num(1)
          ELSE IF /\ RatLess(Num(2), range)
                  /\ IsInteger(max) /\ IsInteger(max) /\ IsInteger(default)
               THEN IF RatLess(range, Num(10)) THEN Rat(1, 12)
                    ELSE Pow2(FloorLog2From(RatDiv(range, Num(ideal_steps)), 0))
               ELSE undefined
    IN  IF ~NumTruthy(first) THEN RatDiv(range, Num(ideal_steps)) ELSE first

\* the step size: 1 for int and bool; for the others 1/12 or a power of two
\* when range > 2 and max and default are integers; range / ideal_steps when
\* no step size was set
Stepsize(type, min, max, default, range) ==
    LET first ==
          IF type = BoolType \/ type = IntType THEN Num(1)
          ELSE IF /\ RatLess(Num(2), range)
                  /\ IsInteger(max) /\ IsInteger(max) /\ IsInteger(default)
               THEN IF RatLess(range, Num(10)) THEN Rat(1, 12)
                    ELSE Pow2(RoundLog2(RatDiv(range, Num(ideal_steps))))
               ELSE undefined
    IN  IF ~NumTruthy(first) THEN RatDiv(range, Num(ideal_steps)) ELSE first

\* "rnbo_param_" + param.name + "_" + param.cindex
ParamVarname(name, cindex) ==
    <<"r", "n", "b", "o", "_", "p", "a", "r", "a", "m", "_">> \o name
        \o <<"_">> \o IntToStr(cindex)

\* the numeric fields of a parameter node; resolved is the outcome of the
\* label resolution of the parameter's name
ParamNode(desc, resolved) ==
    [varname  |-> ParamVarname(desc.name, desc.cindex),
     name     |-> desc.name,
     cindex   |-> desc.cindex,
     max      |-> ParamMax(desc),
     min      |-> ParamMin(desc),
     default  |-> ParamDefault(desc),
     range    |-> ParamRange(desc),
     type     |-> resolved.type,
     src      |-> resolved.src,
     label    |-> resolved.label,
     stepsize |-> Stepsize(resolved.type, ParamMin(desc), ParamMax(desc),
                           ParamDefault(desc), ParamRange(desc))]

(***************************************************************************)
(* The node graph: nodes is the object of generate_app, name -> node; a   *)
(* node is a record, and a field it does not have reads as undefined       *)
(***************************************************************************)
Get(node, field) == IF field \in DOMAIN node THEN node[field] ELSE undefined

\* nodes[name].field = value
SetField(nodes, name, field, value) ==
    [nodes EXCEPT ![name] = (field :> value) @@ @]

\* nodes[name] = node
SetNode(nodes, name, node) == (name :> node) @@ nodes

\* nodes[name].field.push(value)
Push(nodes, name, field, value) ==
    [nodes EXCEPT ![name] = (field :> Append(@[field], value)) @@ @]

\* names are built by concatenation, `dsy_in${i+1}` and the like
DsyIn(i) == <<"d", "s", "y", "_", "i", "n">> \o IntToStr(i)

DsyOut(i) == <<"d", "s", "y", "_", "o", "u", "t">> \o IntToStr(i)

RnboIn(i) == <<"r", "n", "b", "o", "_", "i", "n">> \o IntToStr(i)

RnboOut(i) == <<"r", "n", "b", "o", "_", "o", "u", "t">> \o IntToStr(i)

GlueOut(i) == <<"g", "l", "u", "e", "_", "o", "u", "t">> \o IntToStr(i)

\* generate_daisy: one node per input, per output, per raw audio channel;
\* a later assignment to the same name replaces the earlier node
RECURSIVE InputNodes(_, _, _)
InputNodes(keys, hw, nodes) ==
    IF keys = <<>> THEN nodes
    ELSE InputNodes(Tail(keys), hw,
             SetNode(nodes, Head(keys),
                     hw.inputs.val[Head(keys)]
                         @@ [name |-> Head(keys), to |-> <<>>]))

RECURSIVE OutputNodes(_, _, _)
OutputNodes(keys, hw, nodes) ==
    IF keys = <<>> THEN nodes
    ELSE OutputNodes(Tail(keys), hw,
             SetNode(nodes, Head(keys),
                     [name |-> Head(keys), config |-> hw.outputs.val[Head(keys)],
                      from |-> <<>>]))

RECURSIVE ChannelNodes(_, _, _, _)
ChannelNodes(i, count, Name(_), nodes) ==
    IF i >= count THEN nodes
    ELSE ChannelNodes(i + 1, count, Name,
             SetNode(nodes, Name(i + 1), [name |-> Name(i + 1), to |-> <<>>]))

NoNodes == [n \in {} |-> <<>>]

\* hardware.datahandlers = hardware.datahandlers || {}
DataHandlers(hw) ==
    IF "datahandlers" \in DOMAIN hw THEN hw.datahandlers
    ELSE [keys |-> <<>>, val |-> <<>>]

RECURSIVE DataHandlerNodes(_, _, _)
DataHandlerNodes(keys, hw, nodes) ==
    IF keys = <<>> THEN nodes
    ELSE DataHandlerNodes(Tail(keys), hw,
             SetNode(nodes, Head(keys),
                     DataHandlers(hw).val[Head(keys)]
                         @@ [name |-> Head(keys), data |-> null]))

\* a define that is set and not 0
Defined(defines, d) == d \in DOMAIN defines /\ defines[d] # 0

DsyMidiIn == <<"d", "s", "y", "_", "m", "i", "d", "i", "_", "i", "n">>

DsyMidiOut == <<"d", "s", "y", "_", "m", "i", "d", "i", "_", "o", "u", "t">>

MidiIns(hw) ==
    IF Defined(hw.defines, "OOPSY_TARGET_HAS_MIDI_INPUT")
    THEN <<DsyMidiIn>> ELSE <<>>

MidiOuts(hw) ==
    IF Defined(hw.defines, "OOPSY_TARGET_HAS_MIDI_OUTPUT")
    THEN <<DsyMidiOut>> ELSE <<>>

GenerateDaisyNodes(hw) ==
    LET n1 == InputNodes(hw.inputs.keys, hw, NoNodes)
        nd == DataHandlerNodes(DataHandlers(hw).keys, hw, n1)
        n2 == OutputNodes(hw.outputs.keys, hw, nd)
        n3 == ChannelNodes(0, hw.defines.OOPSY_IO_COUNT, DsyIn, n2)
        n4 == ChannelNodes(0, hw.defines.OOPSY_IO_COUNT, DsyOut, n3)
        n5 == IF MidiIns(hw) # <<>>
              THEN SetNode(n4, DsyMidiIn, [name |-> DsyMidiIn, to |-> <<>>])
              ELSE n4
    IN  IF MidiOuts(hw) # <<>>
        THEN SetNode(n5, DsyMidiOut, [name |-> DsyMidiOut, from |-> <<>>])
        ELSE n5

GenerateDaisy(hw) ==
    [device_inputs |-> hw.inputs.keys,
     datahandlers  |-> DataHandlers(hw).keys,
     device_outs   |-> hw.outputs.keys,
     audio_ins     |-> [i \in 1..hw.defines.OOPSY_IO_COUNT |-> DsyIn(i)],
     audio_outs    |-> [i \in 1..hw.defines.OOPSY_IO_COUNT |-> DsyOut(i)],
     midi_ins      |-> MidiIns(hw),
     midi_outs     |-> MidiOuts(hw)]

\* run, before the apps are generated: a target with a MIDI port gets the
\* define of the transport that the arguments name
RunMidiDefines(defines, midiuse) ==
    IF Defined(defines, "OOPSY_TARGET_HAS_MIDI_INPUT")
           \/ Defined(defines, "OOPSY_TARGET_HAS_MIDI_OUTPUT")
    THEN IF midiuse = "usb"
         THEN [OOPSY_TARGET_USES_MIDI_USB |-> 1] @@ defines
         ELSE IF midiuse = "uart"
              THEN [OOPSY_TARGET_USES_MIDI_UART |-> 1] @@ defines
              ELSE defines
    ELSE defines

\* a variant of the defines of generate_app that counts the apps in the
\* define
MidiDefines_counted(hw, config) ==
    IF Defined(hw.defines, "OOPSY_TARGET_HAS_MIDI_INPUT")
           \/ Defined(hw.defines, "OOPSY_TARGET_HAS_MIDI_OUTPUT")
    THEN IF config.midiuse = "usb"
         THEN [hw EXCEPT !.defines =
                  [OOPSY_TARGET_USES_MIDI_USB |->
                      IF "OOPSY_TARGET_USES_MIDI_USB" \in DOMAIN @
                      THEN @.OOPSY_TARGET_USES_MIDI_USB + 1 ELSE 1] @@ @]
         ELSE hw
    ELSE hw

\* generate_app: app.has_midi_in and app.has_midi_out are true, so a target
\* with a MIDI port gets the define of config.midiuse; defines is
\* hardware.defines itself
MidiDefines(hw, config) ==
    IF Defined(hw.defines, "OOPSY_TARGET_HAS_MIDI_INPUT")
           \/ Defined(hw.defines, "OOPSY_TARGET_HAS_MIDI_OUTPUT")
    THEN IF config.midiuse = "usb"
         THEN [hw EXCEPT !.defines = [OOPSY_TARGET_USES_MIDI_USB |-> 1] @@ @]
         ELSE IF config.midiuse = "uart"
              THEN [hw EXCEPT !.defines = [OOPSY_TARGET_USES_MIDI_UART |-> 1] @@ @]
              ELSE hw
    ELSE hw

\* a variant of the inlets in which the inlets beyond the raw inputs all
\* take the last raw input
RECURSIVE AudioIns_clamp(_, _, _, _)
AudioIns_clamp(i, ins, daisy, nodes) ==
    IF i >= Len(ins) THEN nodes
    ELSE LET name == RnboIn(i + 1)
             R    == Len(daisy.audio_ins)
             src  == IF R > 0
                     THEN daisy.audio_ins[(IF i < R THEN i ELSE R - 1) + 1]
                     ELSE null
             n1   == SetNode(nodes, name,
                             [label |-> OutletLabel(ins[i + 1]), src |-> src])
             n2   == IF Truthy(src) THEN Push(n1, src, "to", name) ELSE n1
         IN  AudioIns_clamp(i + 1, ins, daisy, n2)

\* rnbo.audio_ins = app.patch.ins.map((s, i) => ...); i counts from 0
RECURSIVE AudioIns(_, _, _, _)
AudioIns(i, ins, daisy, nodes) ==
    IF i >= Len(ins) THEN nodes
    ELSE LET name == RnboIn(i + 1)
             src  == IF Len(daisy.audio_ins) > 0
                     THEN daisy.audio_ins[(i % Len(daisy.audio_ins)) + 1]
                     ELSE null
             n1   == SetNode(nodes, name,
                             [label |-> OutletLabel(ins[i + 1]), src |-> src])
             n2   == IF Truthy(src) THEN Push(n1, src, "to", name) ELSE n1
         IN  AudioIns(i + 1, ins, daisy, n2)

\* a variant of the outlets in which a mapped hardware output is given the
\* outlet node, not its buffer, and the label is never cut
RECURSIVE AudioOuts_byname(_, _, _, _, _)
AudioOuts_byname(i, outs, hw, daisy, st) ==
    IF i >= Len(outs) THEN st
    ELSE LET name  == RnboOut(i + 1)
             label == OutletLabel(outs[i + 1])
             raw   == IF i + 1 <= Len(daisy.audio_outs)
                      THEN daisy.audio_outs[i + 1] ELSE undefined
             src   == IF Truthy(raw) THEN raw ELSE GlueOut(i + 1)
             n1    == IF Truthy(raw) THEN st.nodes
                      ELSE SetNode(st.nodes, src, [to |-> <<>>])
             glue  == IF Truthy(raw) THEN st.audio_outs
                      ELSE Append(st.audio_outs, src)
             n2    == SetNode(n1, name, [name |-> name, src |-> src])
             sel   == ResolveLabel(hw.labels.outs, label)
             n3    == IF Truthy(sel.map) THEN n2
                      ELSE SetField(n2, src, "src", src)
             n4    == SetField(n3, name, "label", label)
             n5    == IF Truthy(sel.map)
                      THEN Push(Push(n4, sel.map, "from", name), src, "to", sel.map)
                      ELSE n4
         IN  AudioOuts_byname(i + 1, outs, hw, daisy,
                              [nodes |-> n5, audio_outs |-> glue])

\* a variant of the outlets in which the buffer of an unmapped outlet gets
\* the outlet node as src
RECURSIVE AudioOuts_backref(_, _, _, _, _)
AudioOuts_backref(i, outs, hw, daisy, st) ==
    IF i >= Len(outs) THEN st
    ELSE LET name  == RnboOut(i + 1)
             label == OutletLabel(outs[i + 1])
             raw   == IF i + 1 <= Len(daisy.audio_outs)
                      THEN daisy.audio_outs[i + 1] ELSE undefined
             src   == IF Truthy(raw) THEN raw ELSE GlueOut(i + 1)
             n1    == IF Truthy(raw) THEN st.nodes
                      ELSE SetNode(st.nodes, src, [to |-> <<>>])
             glue  == IF Truthy(raw) THEN st.audio_outs
                      ELSE Append(st.audio_outs, src)
             n2    == SetNode(n1, name, [name |-> name, src |-> src])
             sel   == ResolveLabel(hw.labels.outs, label)
             n3    == IF Truthy(sel.map) THEN n2
                      ELSE SetField(n2, src, "src", name)
             n4    == SetField(n3, name, "label",
                               IF Truthy(sel.map) THEN sel.maplabel ELSE label)
             n5    == IF Truthy(sel.map)
                      THEN Push(Push(n4, sel.map, "from", src), src, "to", sel.map)
                      ELSE n4
         IN  AudioOuts_backref(i + 1, outs, hw, daisy,
                               [nodes |-> n5, audio_outs |-> glue])

\* rnbo.audio_outs = app.patch.outs.map((s, i) => ...): st is
\* [nodes, audio_outs], audio_outs being app.audio_outs, the glue buffers
RECURSIVE AudioOuts(_, _, _, _, _)
AudioOuts(i, outs, hw, daisy, st) ==
    IF i >= Len(outs) THEN st
    ELSE LET name  == RnboOut(i + 1)
             label == OutletLabel(outs[i + 1])
             raw   == IF i + 1 <= Len(daisy.audio_outs)
                      THEN daisy.audio_outs[i + 1] ELSE undefined
             src   == IF Truthy(raw) THEN raw ELSE GlueOut(i + 1)
             n1    == IF Truthy(raw) THEN st.nodes
                      ELSE SetNode(st.nodes, src, [to |-> <<>>])
             glue  == IF Truthy(raw) THEN st.audio_outs
                      ELSE Append(st.audio_outs, src)
             n2    == SetNode(n1, name, [name |-> name, src |-> src])
             sel   == ResolveLabel(hw.labels.outs, label)
             n3    == IF Truthy(sel.map) THEN n2
                      ELSE SetField(n2, src, "src", src)
             n4    == SetField(n3, name, "label",
                               IF Truthy(sel.map) THEN sel.maplabel ELSE label)
             n5    == IF Truthy(sel.map)
                      THEN Push(Push(n4, sel.map, "from", src), src, "to", sel.map)
                      ELSE n4
         IN  AudioOuts(i + 1, outs, hw, daisy,
                       [nodes |-> n5, audio_outs |-> glue])

\* rnbo.params = app.patch.params.map((param, i) => ...)
RECURSIVE Params(_, _, _, _)
Params(i, params, hw, nodes) ==
    IF i >= Len(params) THEN nodes
    ELSE LET node == ParamNode(params[i + 1],
                               ResolveParam(hw.labels.params, params[i + 1].name))
             n1   == SetNode(nodes, node.varname, node)
             n2   == IF Truthy(node.src) /\ node.src \in DOMAIN n1
                     THEN Push(n1, node.src, "to", node.varname) ELSE n1
         IN  Params(i + 1, params, hw, n2)

ParamVarnames(params) ==
    [i \in 1..Len(params) |-> ParamVarname(params[i].name, params[i].cindex)]

\* a variant of the search that does not skip the parameters that have a src
NextUnmapped_noskip(upi, rparams, nodes) == upi

\* a variant of the search that gives up at the first parameter with a src
NextUnmapped_giveup(upi, rparams, nodes) ==
    IF upi < Len(rparams) /\ Truthy(Get(nodes[rparams[upi + 1]], "src"))
    THEN Len(rparams)
    ELSE upi

\* while (param && !!nodes[param].src) param = rnbo.params[++upi]: the index
\* (from 0) of the first parameter at or after upi that has no src, or
\* the number of parameters when there is none
RECURSIVE NextUnmapped(_, _, _)
NextUnmapped(upi, rparams, nodes) ==
    IF upi < Len(rparams) /\ Truthy(Get(nodes[rparams[upi + 1]], "src"))
    THEN NextUnmapped(upi + 1, rparams, nodes)
    ELSE upi

\* the fill pass: Object.keys(hardware.inputs).forEach(name => ...), with
\* upi and the nodes carried from one input to the next
\* a variant of the fill pass that gives the parameter its src and leaves
\* the `to` list of the input as it was
RECURSIVE FillPass_silent(_, _, _, _)
FillPass_silent(keys, rparams, upi, nodes) ==
    IF keys = <<>> THEN nodes
    ELSE LET name == Head(keys)
             node == nodes[name]
         IN  IF Len(Get(node, "to")) = 0 /\ Get(node, "automap") = TRUE
             THEN LET u == NextUnmapped(upi, rparams, nodes)
                  IN  IF u < Len(rparams)
                      THEN FillPass_silent(Tail(keys), rparams, u,
                               SetField(nodes, rparams[u + 1], "src", name))
                      ELSE FillPass_silent(Tail(keys), rparams, u, nodes)
             ELSE FillPass_silent(Tail(keys), rparams, upi, nodes)

RECURSIVE FillPass(_, _, _, _)
FillPass(keys, rparams, upi, nodes) ==
    IF keys = <<>> THEN nodes
    ELSE LET name == Head(keys)
             node == nodes[name]
         IN  IF Len(Get(node, "to")) = 0 /\ Get(node, "automap") = TRUE
             THEN LET u == NextUnmapped(upi, rparams, nodes)
                  IN  IF u < Len(rparams)
                      THEN FillPass(Tail(keys), rparams, u,
                               Push(SetField(nodes, rparams[u + 1], "src", name),
                                    name, "to", rparams[u + 1]))
                      ELSE FillPass(Tail(keys), rparams, u, nodes)
             ELSE FillPass(Tail(keys), rparams, upi, nodes)

\* a variant of the choice among the available outputs: the nearest one
PickAvailable_nearest(available, i) == available[Len(available)]

\* available[i % available.length]
PickAvailable(available, i) == available[(i % Len(available)) + 1]

\* a variant of the normalization in which an output that was given a src
\* becomes available to the later ones
RECURSIVE NormalizeAudioOuts_reuse(_, _, _, _)
NormalizeAudioOuts_reuse(i, audio_outs, available, nodes) ==
    IF i >= Len(audio_outs) THEN nodes
    ELSE LET name == audio_outs[i + 1]
         IN  IF Truthy(Get(nodes[name], "src"))
             THEN NormalizeAudioOuts_reuse(i + 1, audio_outs,
                                           Append(available, name), nodes)
             ELSE IF Len(available) > 0
             THEN NormalizeAudioOuts_reuse(i + 1, audio_outs,
                      Append(available, name),
                      SetField(nodes, name, "src", PickAvailable(available, i)))
             ELSE NormalizeAudioOuts_reuse(i + 1, audio_outs, available, nodes)

\* the audio out normalization: daisy.audio_outs.forEach((name, i) => ...),
\* with the list of available outputs carried along; i counts from 0
RECURSIVE NormalizeAudioOuts(_, _, _, _)
NormalizeAudioOuts(i, audio_outs, available, nodes) ==
    IF i >= Len(audio_outs) THEN nodes
    ELSE LET name == audio_outs[i + 1]
         IN  IF Truthy(Get(nodes[name], "src"))
             THEN NormalizeAudioOuts(i + 1, audio_outs,
                                     Append(available, name), nodes)
             ELSE IF Len(available) > 0
             THEN NormalizeAudioOuts(i + 1, audio_outs, available,
                      SetField(nodes, name, "src", PickAvailable(available, i)))
             ELSE NormalizeAudioOuts(i + 1, audio_outs, available, nodes)

\* audioCallback, the last lines over daisy.audio_outs: nothing for a node
\* that is its own src, a memcpy from the src, or a memset to silence
EmitAudioOut(node) ==
    IF Get(node, "src") = Get(node, "name") THEN <<>>
    ELSE IF Truthy(Get(node, "src"))
         THEN <<[op |-> "memcpy", dst |-> Get(node, "name"), src |-> Get(node, "src")]>>
         ELSE <<[op |-> "memset", dst |-> Get(node, "name"), src |-> undefined]>>

RECURSIVE EmitAudioOuts(_, _)
EmitAudioOuts(audio_outs, nodes) ==
    IF audio_outs = <<>> THEN <<>>
    ELSE EmitAudioOut(nodes[Head(audio_outs)])
             \o EmitAudioOuts(Tail(audio_outs), nodes)

(***************************************************************************)
(* The callbacks: of the struct text, the fragments that nodes contribute  *)
(* to audioCallback, mainloopCallback and displayCallback.  A fragment     *)
(* template is the list of its parts, <<"var", field>> for $<field> and    *)
(* <<"lit", text>> for literal text.                                       *)
(***************************************************************************)
WhereAudio == <<"audio">>

WhereMain == <<"main">>

WhereDisplay == <<"display">>

\* what a template literal or String.prototype.replace makes of a value
JsString(v) ==
    IF v = undefined THEN <<"u", "n", "d", "e", "f", "i", "n", "e", "d">>
    ELSE IF v = null THEN <<"n", "u", "l", "l">>
    ELSE v

\* str.replace(/\$<([^>]+)>/gm, (s, key) => data[key])
RECURSIVE interpolate(_, _)
interpolate(parts, data) ==
    IF parts = <<>> THEN <<>>
    ELSE (IF Head(parts)[1] = "var" THEN JsString(Get(data, Head(parts)[2]))
          ELSE Head(parts)[2])
         \o interpolate(Tail(parts), data)

NoCallbacks == [audio |-> <<>>, main |-> <<>>, display |-> <<>>]

\* daisy.device_inputs ... .filter(node => node.to.length)
\*     .filter(node => node.update && node.update.where == "audio")
\* (update, when an input has it, is an object)
InputUpdates(inputs, nodes) ==
    LET Used(n) == /\ Get(nodes[n], "to") # <<>>
                   /\ "update" \in DOMAIN nodes[n]
                   /\ Get(nodes[n].update, "where") = WhereAudio
        used == SelectSeq(inputs, Used)
    IN  [i \in 1..Len(used) |->
            [kind |-> "update", node |-> used[i],
             text |-> interpolate(nodes[used[i]].update.code, nodes[used[i]])]]

\* daisy.device_inputs ... .filter(node => node.to.length):
\* float ${node.name} = ${node.code};
InputReads(inputs, nodes) ==
    LET used == SelectSeq(inputs, LAMBDA n : Get(nodes[n], "to") # <<>>)
    IN  [i \in 1..Len(used) |->
            [kind |-> "read", node |-> used[i],
             text |-> JsString(Get(nodes[used[i]], "name")) \o <<"=">>
                        \o JsString(Get(nodes[used[i]], "code"))]]

\* rnbo.params ... .filter(node => node.src)
\*     .filter(node => node.where == "audio" || node.where == undefined)
ParamUpdates(params, nodes) ==
    LET Used(q) == /\ Truthy(Get(nodes[q], "src"))
                   /\ \/ Get(nodes[q], "where") = WhereAudio
                      \/ Get(nodes[q], "where") = undefined
        used == SelectSeq(params, Used)
    IN  [i \in 1..Len(used) |->
            [kind |-> "param", node |-> used[i],
             text |-> used[i] \o <<"=">> \o nodes[used[i]].src]]

\* .filter(node => node.src || node.from.length)
OutputDriven(node) == Truthy(Get(node, "src")) \/ Get(node, "from") # <<>>

\* daisy.device_outs ... ${node.name} = ${node.src}, or the sum of the last
\* samples of node.from
OutputValues(outs, nodes) ==
    LET used == SelectSeq(outs, LAMBDA n : OutputDriven(nodes[n]))
    IN  [i \in 1..Len(used) |->
            [kind |-> "value", node |-> used[i],
             text |-> IF Truthy(Get(nodes[used[i]], "src"))
                      THEN used[i] \o <<"=">> \o nodes[used[i]].src
                      ELSE used[i] \o <<"=">> \o nodes[used[i]].from[1]]]

\* daisy.device_outs ... .filter(node => node.config.where == where):
\* interpolate(node.config.code, node)
OutputWrites(outs, nodes, where) ==
    LET Used(n) == /\ OutputDriven(nodes[n])
                   /\ Get(nodes[n].config, "where") = where
        used == SelectSeq(outs, Used)
    IN  [i \in 1..Len(used) |->
            [kind |-> "write", node |-> used[i],
             text |-> interpolate(nodes[used[i]].config.code, nodes[used[i]])]]

\* the three callbacks of the struct text
EmitCallbacks(daisy, rnbo, nodes) ==
    [audio   |-> InputUpdates(daisy.device_inputs, nodes)
                    \o InputReads(daisy.device_inputs, nodes)
                    \o ParamUpdates(rnbo.params, nodes)
                    \o OutputValues(daisy.device_outs, nodes)
                    \o OutputWrites(daisy.device_outs, nodes, WhereAudio),
     main    |-> OutputWrites(daisy.device_outs, nodes, WhereMain),
     display |-> OutputWrites(daisy.device_outs, nodes, WhereDisplay)]

(***************************************************************************)
(* The component registry and the target normalizer                        *)
(*                                                                         *)
(* A field value is <<"string", s>>, <<"array", list>>, null or undefined;  *)
(* a template string is the list of its parts, <<"var", field>> for        *)
(* ${field} and <<"lit", text>> for literal text.                          *)
(***************************************************************************)
KindSwitch == <<"S", "w", "i", "t", "c", "h">>

KindSwitch3 == <<"S", "w", "i", "t", "c", "h", "3">>

KindEncoder == <<"E", "n", "c", "o", "d", "e", "r">>

KindGateIn == <<"G", "a", "t", "e", "I", "n">>

KindAnalogControl == <<"A", "n", "a", "l", "o", "g", "C", "o", "n", "t", "r", "o", "l">>

KindLed == <<"L", "e", "d">>

KindRgbLed == <<"R", "g", "b", "L", "e", "d">>

KindGateOut == <<"G", "a", "t", "e", "O", "u", "t">>

KindCVOuts == <<"C", "V", "O", "u", "t", "s">>

DefSwitch ==
    [typename |-> <<"string", "daisy::Switch">>,
     pin |-> <<"string", "a">>,
     type |-> <<"string", "daisy::Switch::TYPE_MOMENTARY">>,
     polarity |-> <<"string", "daisy::Switch::POLARITY_INVERTED">>,
     pull |-> <<"string", "daisy::Switch::PULL_UP">>,
     process |-> <<"string", "${name}.Debounce();">>,
     updaterate |-> <<"string", "${name}.SetUpdateRate(seed.AudioCallbackRate());">>,
     mapping |-> <<"array", <<
         [name |-> <<<<"var", "name">>>>, get |-> TRUE, set |-> FALSE, where |-> undefined],
         [name |-> <<<<"var", "name">>, <<"lit", <<"_", "r", "i", "s", "e">>>>>>, get |-> TRUE, set |-> FALSE, where |-> undefined],
         [name |-> <<<<"var", "name">>, <<"lit", <<"_", "f", "a", "l", "l">>>>>>, get |-> TRUE, set |-> FALSE, where |-> undefined],
         [name |-> <<<<"var", "name">>, <<"lit", <<"_", "s", "e", "c", "o", "n", "d", "s">>>>>>, get |-> TRUE, set |-> FALSE, where |-> undefined]>>>>]

DefSwitch3 ==
    [typename |-> <<"string", "daisy::Switch3">>,
     pin |-> <<"string", "a,b">>,
     mapping |-> <<"array", <<
         [name |-> <<<<"var", "name">>>>, get |-> TRUE, set |-> FALSE, where |-> undefined]>>>>]

DefEncoder ==
    [typename |-> <<"string", "daisy::Encoder">>,
     pin |-> <<"string", "a,b,click">>,
     process |-> <<"string", "${name}.Debounce();">>,
     updaterate |-> <<"string", "${name}.SetUpdateRate(seed.AudioCallbackRate());">>,
     mapping |-> <<"array", <<
         [name |-> <<<<"var", "name">>>>, get |-> TRUE, set |-> FALSE, where |-> undefined],
         [name |-> <<<<"var", "name">>, <<"lit", <<"_", "p", "r", "e", "s", "s">>>>>>, get |-> TRUE, set |-> FALSE, where |-> undefined],
         [name |-> <<<<"var", "name">>, <<"lit", <<"_", "r", "i", "s", "e">>>>>>, get |-> TRUE, set |-> FALSE, where |-> undefined],
         [name |-> <<<<"var", "name">>, <<"lit", <<"_", "f", "a", "l", "l">>>>>>, get |-> TRUE, set |-> FALSE, where |-> undefined],
         [name |-> <<<<"var", "name">>, <<"lit", <<"_", "s", "e", "c", "o", "n", "d", "s">>>>>>, get |-> TRUE, set |-> FALSE, where |-> undefined]>>>>]

DefGateIn ==
    [typename |-> <<"string", "daisy::GateIn">>,
     pin |-> <<"string", "a">>,
     mapping |-> <<"array", <<
         [name |-> <<<<"var", "name">>>>, get |-> TRUE, set |-> FALSE, where |-> undefined],
         [name |-> <<<<"var", "name">>, <<"lit", <<"_", "t", "r", "i", "g">>>>>>, get |-> TRUE, set |-> FALSE, where |-> undefined]>>>>]

DefAnalogControl ==
    [typename |-> <<"string", "daisy::AnalogControl">>,
     pin |-> <<"string", "a">>,
     flip |-> <<"string", "false">>,
     invert |-> <<"string", "false">>,
     slew |-> <<"string", "1.0/seed.AudioCallbackRate()">>,
     process |-> <<"string", "${name}.Process();">>,
     updaterate |-> <<"string", "${name}.SetSampleRate(seed.AudioCallbackRate());">>,
     mapping |-> <<"array", <<
         [name |-> <<<<"var", "name">>>>, get |-> TRUE, set |-> FALSE, where |-> undefined]>>>>]

DefLed ==
    [typename |-> <<"string", "daisy::Led">>,
     pin |-> <<"string", "a">>,
     invert |-> <<"string", "true">>,
     postprocess |-> <<"string", "${name}.Update();">>,
     mapping |-> <<"array", <<
         [name |-> <<<<"var", "name">>>>, get |-> FALSE, set |-> TRUE, where |-> undefined]>>>>]

DefRgbLed ==
    [typename |-> <<"string", "daisy::RgbLed">>,
     pin |-> <<"string", "r,g,b">>,
     invert |-> <<"string", "true">>,
     postprocess |-> <<"string", "${name}.Update();">>,
     mapping |-> <<"array", <<
         [name |-> <<<<"var", "name">>, <<"lit", <<"_", "r", "e", "d">>>>>>, get |-> FALSE, set |-> TRUE, where |-> undefined],
         [name |-> <<<<"var", "name">>, <<"lit", <<"_", "g", "r", "e", "e", "n">>>>>>, get |-> FALSE, set |-> TRUE, where |-> undefined],
         [name |-> <<<<"var", "name">>, <<"lit", <<"_", "b", "l", "u", "e">>>>>>, get |-> FALSE, set |-> TRUE, where |-> undefined],
         [name |-> <<<<"var", "name">>>>, get |-> FALSE, set |-> TRUE, where |-> undefined],
         [name |-> <<<<"var", "name">>, <<"lit", <<"_", "w", "h", "i", "t", "e">>>>>>, get |-> FALSE, set |-> TRUE, where |-> undefined]>>>>]

DefGateOut ==
    [typename |-> <<"string", "daisy::dsy_gpio">>,
     pin |-> <<"string", "a">>,
     mode |-> <<"string", "DSY_GPIO_MODE_OUTPUT_PP">>,
     pull |-> <<"string", "DSY_GPIO_NOPULL">>,
     mapping |-> <<"array", <<
         [name |-> <<<<"var", "name">>>>, get |-> FALSE, set |-> TRUE, where |-> undefined]>>>>]

DefCVOuts ==
    [typename |-> <<"string", "daisy::DacHandle::Config">>,
     pin |-> <<"string", "">>,
     bitdepth |-> <<"string", "daisy::DacHandle::BitDepth::BITS_12">>,
     buff_state |-> <<"string", "daisy::DacHandle::BufferState::ENABLED">>,
     mode |-> <<"string", "daisy::DacHandle::Mode::POLLING">>,
     channel |-> <<"string", "daisy::DacHandle::Channel::BOTH">>,
     mapping |-> <<"array", <<
         [name |-> <<<<"var", "name">>, <<"lit", <<"1">>>>>>, get |-> FALSE, set |-> TRUE, where |-> <<"string", "main">>],
         [name |-> <<<<"var", "name">>, <<"lit", <<"2">>>>>>, get |-> FALSE, set |-> TRUE, where |-> <<"string", "main">>]>>>>]

\* the registry, kind name -> default instance shape
component_defs ==
    (KindSwitch :> DefSwitch) @@
    (KindSwitch3 :> DefSwitch3) @@
    (KindEncoder :> DefEncoder) @@
    (KindGateIn :> DefGateIn) @@
    (KindAnalogControl :> DefAnalogControl) @@
    (KindLed :> DefLed) @@
    (KindRgbLed :> DefRgbLed) @@
    (KindGateOut :> DefGateOut) @@
    (KindCVOuts :> DefCVOuts)

\* the identifiers that the module scope of oopsy.shared.js binds: the four
\* require() constants; component_defs and template are properties of the
\* object assigned to module.exports, not variables
SharedModuleScope == {"path", "os", "execSync", "fs"}

\* a variant in which the registry and template are variables of the module
SharedModuleScope_bound ==
    {"path", "os", "execSync", "fs", "component_defs", "template"}

\* whether a free identifier of generate_target_struct resolves
Bound(id) == id \in SharedModuleScope

\* def[k] == undefined: true of a missing field, of undefined and of null
Nullish(def, k) == k \notin DOMAIN def \/ def[k] = null \/ def[k] = undefined

\* for (let k of Object.keys(component)) if (def[k] == undefined)
\*     def[k] = component[k]: whole fields, nothing is merged inside a value
CopyDefaults(def, component) ==
    [k \in DOMAIN def \cup DOMAIN component |->
        IF k \in DOMAIN component /\ Nullish(def, k) THEN component[k]
        ELSE def[k]]

\* the comparator of the sort: by the kind name, a[1].component
KindLess(a, b) == StrLess(a.def.component[2], b.def.component[2])

\* Array.prototype.sort with that comparator is stable: an entry goes behind
\* the entries that are not greater
RECURSIVE InsertByKind(_, _)
InsertByKind(e, sorted) ==
    IF sorted = <<>> THEN <<e>>
    ELSE IF KindLess(e, Head(sorted)) THEN <<e>> \o sorted
    ELSE <<Head(sorted)>> \o InsertByKind(e, Tail(sorted))

RECURSIVE SortByKind(_)
SortByKind(entries) ==
    IF entries = <<>> THEN <<>>
    ELSE InsertByKind(entries[Len(entries)],
                      SortByKind(SubSeq(entries, 1, Len(entries) - 1)))

\* the .map callback over the sorted entries: def.name = name, then the
\* lookup of the kind; the first entry that throws ends the map
RECURSIVE FleshOut(_, _)
FleshOut(entries, done) ==
    IF entries = <<>> THEN [error |-> <<>>, components |-> done]
    ELSE LET name  == Head(entries).name
             def   == ("name" :> <<"string", name>>) @@ Head(entries).def
             kind  == def.component[2]
         IN  IF ~Bound("component_defs")
             THEN [error |-> <<[type |-> "ReferenceError",
                                message |-> "component_defs is not defined",
                                kind |-> undefined]>>,
                   components |-> done]
             ELSE IF kind \in DOMAIN component_defs
             THEN FleshOut(Tail(entries),
                           Append(done, CopyDefaults(def, component_defs[kind])))
             ELSE [error |-> <<[type |-> "Error",
                                message |-> "undefined component kind: ",
                                kind |-> kind]>>,
                   components |-> done]

\* the fields whose templates the struct text expands with template(...)
StructTemplateFields == {"init", "process", "postprocess", "display", "updaterate"}

UsesTemplate(c) ==
    \/ \E f \in StructTemplateFields : f \in DOMAIN c /\ ~Nullish(c, f)
    \/ ("meta" \in DOMAIN c /\ ~Nullish(c, "meta"))

\* the struct text: of it, the member declarations `${e.typename} ${e.name};`
StructText(components) ==
    [i \in 1..Len(components) |->
        [typename |-> components[i].typename, name |-> components[i].name]]

\* generate_target_struct(target): the normalized components and the text,
\* or the error thrown
GenerateTargetStruct(entries) ==
    LET r == FleshOut(SortByKind(entries), <<>>)
    IN  IF r.error # <<>> THEN [error |-> r.error, components |-> <<>>,
                                struct |-> <<>>]
        ELSE IF /\ \E i \in 1..Len(r.components) : UsesTemplate(r.components[i])
                /\ ~Bound("template")
        THEN [error |-> <<[type |-> "ReferenceError",
                           message |-> "template is not defined",
                           kind |-> undefined]>>,
              components |-> <<>>, struct |-> <<>>]
        ELSE [error |-> <<>>, components |-> r.components,
              struct |-> <<"struct Daisy">> \o StructText(r.components)]

\* template(str, vars): the parts of the template literal, ${field} replaced
\* by the field's value
RECURSIVE Template(_, _)
Template(parts, vars) ==
    IF parts = <<>> THEN <<>>
    ELSE (IF Head(parts)[1] = "var" THEN vars[Head(parts)[2]][2]
          ELSE Head(parts)[2])
         \o Template(Tail(parts), vars)

\* table[name] = value: a new key goes to the end, an old key keeps its place
TablePut(table, name, value) ==
    [keys |-> IF name \in Range(table.keys) THEN table.keys
              ELSE Append(table.keys, name),
     val  |-> (name :> value) @@ table.val]

\* component.automap && name == component.name
AutomapOf(c, name) ==
    IF Nullish(c, "automap") THEN FALSE
    ELSE c.automap = <<"string", "true">> /\ <<"string", name>> = c.name

\* the body of `for (let mapping of component.mapping)`; io is
\* [inputs, outputs, params, outs], the two tables and their label tables
RegisterMapping(io, c, mapping) ==
    LET name == Template(mapping.name, c)
        i1   == IF mapping.get
                THEN [io EXCEPT
                        !.inputs = TablePut(@, name,
                            [automap |-> AutomapOf(c, name), from |-> c.name[2],
                             where |-> mapping.where]),
                        !.params = TablePut(@, name, name)]
                ELSE io
    IN  IF mapping.set
        THEN [i1 EXCEPT
                !.outputs = TablePut(@, name,
                    [automap |-> AutomapOf(c, name), from |-> c.name[2],
                     where |-> IF mapping.where = undefined
                               THEN <<"string", "audio">> ELSE mapping.where]),
                !.outs = TablePut(@, name, name)]
        ELSE i1

RECURSIVE RegisterMappings(_, _, _)
RegisterMappings(io, c, mappings) ==
    IF mappings = <<>> THEN io
    ELSE RegisterMappings(RegisterMapping(io, c, Head(mappings)), c,
                          Tail(mappings))

\* for (let component of hardware.components): meta elements are skipped
RECURSIVE FlattenComponents(_, _)
FlattenComponents(io, components) ==
    IF components = <<>> THEN io
    ELSE FlattenComponents(
             IF ~Nullish(Head(components), "meta") THEN io
             ELSE RegisterMappings(io, Head(components),
                                   Head(components).mapping[2]),
             Tail(components))

\* for (let alias in hardware.aliases): the alias becomes a key of each label
\* table that has the aliased name as a key, with the aliased name as value
RECURSIVE ResolveAliases(_, _)
ResolveAliases(io, aliases) ==
    IF aliases = <<>> THEN io
    ELSE LET alias == Head(aliases).alias
             map   == Head(aliases).map
             i1    == IF map \in Range(io.params.keys) /\ Truthy(io.params.val[map])
                      THEN [io EXCEPT !.params = TablePut(@, alias, map)] ELSE io
             i2    == IF map \in Range(i1.outs.keys) /\ Truthy(i1.outs.val[map])
                      THEN [i1 EXCEPT !.outs = TablePut(@, alias, map)] ELSE i1
         IN  ResolveAliases(i2, Tail(aliases))

(***************************************************************************)
(* Bounds                                                                  *)
(***************************************************************************)
\* the largest number of keys of a label table
MaxKeys == 3

\* the largest magnitude of a declared parameter minimum
MaxParamMin == 3

\* the largest declared parameter maximum, besides the MIDI range 127
MaxParamMax == 12

\* the largest number of entries of hardware.inputs
MaxInputs == 3

\* the largest number of visible parameters of a patch
MaxParams == 3

\* the largest OOPSY_IO_COUNT, the number of raw audio channels
MaxIO == 4

\* the largest number of signal inlets and of signal outlets of a patch
MaxInlets == 3

MaxOutlets == 3

\* component instances of a target descriptor
MaxComponents == 2

\* the largest number of outlets of a patch whose emission is examined
MaxEmitOutlets == 2

\* the largest OOPSY_IO_COUNT of a target whose node names are examined
MaxTargetIO == 1

\* the largest number of patch paths in the argument list
MaxPatches == 3

\* the largest max_apps that a target declares
MaxApps == 2

\* the largest number of runs from the same arguments
MaxRuns == 2

(***************************************************************************)
(* State                                                                   *)
(***************************************************************************)
VARIABLES
    lr_table,    \* label resolution: the label table
    lr_label,    \* the outlet tag, parameter name or data name to resolve
    lr_result,   \* what the last resolution selected
    lr_runs      \* how many times the label was resolved

VARIABLES
    pp_json,     \* parameter policy: a parameter of description.json
    pp_params,   \* rnbo.params of analyze_json: the visible parameters
    pp_nodes,    \* the parameter nodes of generate_app, in order
    pp_pc        \* "json", "analyzed", "done"

VARIABLES
    app_hw,         \* generate_app: the normalized target, hardware
    app_patch,      \* app.patch, the result of analyze_json
    app_config,     \* config, of which generate_app reads midiuse
    app_nodes,      \* nodes
    app_daisy,      \* daisy, the name lists of generate_daisy
    app_rnbo,       \* rnbo, the name lists of the patch side
    app_audio_outs, \* app.audio_outs, the glue buffers
    app_code,       \* the memcpy/memset lines of audioCallback
    app_callbacks,  \* the fragments of the nodes in the three callbacks
    app_pc          \* the step of generate_app that was completed last

VARIABLES
    nz_json,     \* the target normalizer: the descriptor as JSON.parse gives it
    nz_hw,       \* hardware: components, struct and the four tables
    nz_error,    \* the exception that ended the run, if any
    nz_pc        \* "parsed", "struct", "flattened", "normalized", "failed"

VARIABLES
    run_args,    \* run: the patch paths of the argument list, in order
    run_target,  \* the target descriptor as JSON.parse gives it
    run_sort,    \* which sort the engine under node has
    run_lib,     \* whether the RNBO sources lie next to the last patch
    run_out,     \* what the last run produced
    run_prev,    \* what the run before it produced
    run_count    \* the number of runs so far

VARIABLES
    tr_args,       \* module use: the arguments of the call
    tr_lib,        \* whether the RNBO sources lie next to the last patch
    tr_retryCount, \* retryCount
    tr_interval,   \* interval
    tr_timer,      \* the delay of the pending setTimeout, NoTimer when none
    tr_promise,    \* "none", "pending", "fulfilled", "rejected"
    tr_value,      \* the value the promise was rejected with
    tr_runs,       \* the outcomes of the attempts of run so far, in order
    tr_settles,    \* the number of calls of resolve and reject so far
    tr_alive       \* FALSE once process.exit was called

VARIABLES
    ex_names,        \* patcher front-end: the names of the rnbo~ objects
    ex_files,        \* the names whose exported file exists
    ex_done,         \* configurations[i].done: "undefined", "false", "true"
    ex_activeConf,   \* activeConf
    ex_timeOutCount, \* timeOutCount
    ex_interval,     \* the interval of the task
    ex_task,         \* "none", "running", "cancelled"
    ex_log,          \* what the task has sent and posted so far, in order
    ex_quiet         \* the ticks since the task started or an export completed

lrVars == <<lr_table, lr_label, lr_result, lr_runs>>

trVars == <<tr_args, tr_lib, tr_retryCount, tr_interval, tr_timer, tr_promise,
            tr_value, tr_runs, tr_settles, tr_alive>>

exVars == <<ex_names, ex_files, ex_done, ex_activeConf, ex_timeOutCount,
            ex_interval, ex_task, ex_log, ex_quiet>>

runVars == <<run_args, run_target, run_sort, run_lib, run_out, run_prev,
             run_count>>

appVars == <<app_hw, app_patch, app_config, app_nodes, app_daisy, app_rnbo,
             app_audio_outs, app_code, app_callbacks, app_pc>>

ppVars == <<pp_json, pp_params, pp_nodes, pp_pc>>

vars == <<lr_table, lr_label, lr_result, lr_runs,
          pp_json, pp_params, pp_nodes, pp_pc,
          app_hw, app_patch, app_config, app_nodes, app_daisy, app_rnbo,
          app_audio_outs, app_code, app_callbacks, app_pc,
          nz_json, nz_hw, nz_error, nz_pc,
          run_args, run_target, run_sort, run_lib, run_out, run_prev,
          run_count,
          tr_args, tr_lib, tr_retryCount, tr_interval, tr_timer, tr_promise,
          tr_value, tr_runs, tr_settles, tr_alive,
          ex_names, ex_files, ex_done, ex_activeConf, ex_timeOutCount,
          ex_interval, ex_task, ex_log, ex_quiet>>

nzVars == <<nz_json, nz_hw, nz_error, nz_pc>>

IdleNorm == nz_json = Idle /\ nz_hw = Idle /\ nz_error = Idle /\ nz_pc = "idle"

IdleRun ==
    /\ run_args = Idle /\ run_target = Idle /\ run_sort = Idle
    /\ run_lib = Idle /\ run_out = Idle /\ run_prev = Idle /\ run_count = 0

IdleTry ==
    /\ tr_args = Idle /\ tr_lib = Idle /\ tr_retryCount = 0 /\ tr_interval = 0
    /\ tr_timer = Idle /\ tr_promise = "idle" /\ tr_value = Idle
    /\ tr_runs = Idle /\ tr_settles = 0 /\ tr_alive = Idle

IdleExport ==
    /\ ex_names = Idle /\ ex_files = Idle /\ ex_done = Idle
    /\ ex_activeConf = 0 /\ ex_timeOutCount = 0 /\ ex_interval = 0
    /\ ex_task = "idle" /\ ex_log = Idle /\ ex_quiet = 0

IdleApp ==
    /\ app_hw = Idle /\ app_patch = Idle /\ app_nodes = Idle /\ app_daisy = Idle
    /\ app_rnbo = Idle /\ app_audio_outs = Idle /\ app_code = Idle
    /\ app_callbacks = Idle /\ app_config = Idle
    /\ app_pc = "idle"

IdleLabel == lr_table = Idle /\ lr_label = Idle /\ lr_result = Idle /\ lr_runs = 0

IdleParam == pp_json = Idle /\ pp_params = Idle /\ pp_nodes = Idle /\ pp_pc = "idle"

\* the sequences without repetition of at most n elements of S
DistinctSeqs(S, n) ==
    UNION {{q \in [1..m -> S] : \A i, j \in 1..m : i # j => q[i] # q[j]} :
           m \in 0..n}

(***************************************************************************)
(* Label resolution on its own                                             *)
(***************************************************************************)
LabelKeyUniverse ==
    {<<"a">>, <<"a", "b">>, <<"a", "_">>, <<"a", "_", "b">>, <<"b">>}

LabelUniverse ==
    {<<"a">>, <<"a", "b">>, <<"a", "_">>, <<"a", "_", "b">>,
     <<"a", "_", "b", "_", "x">>, <<"a", "b", "_", "i", "n", "t">>,
     <<"b", "_", "b", "o", "o", "l", "_", "y">>, <<"c">>,
     <<"a", "_", "b", "o", "o", "l">>,
     <<"\"", "a", "_", "x", "\"", " ">>}

\* the table run() builds for names registered by components: labels[k] = k
IdentityTable(keys) == [keys |-> keys, val |-> [k \in Range(keys) |-> k]]

InitLabel ==
    /\ lr_table \in {IdentityTable(q) : q \in DistinctSeqs(LabelKeyUniverse, MaxKeys)}
    /\ lr_label \in LabelUniverse
    /\ lr_result = Idle
    /\ lr_runs = 0
    /\ IdleParam
    /\ IdleApp
    /\ IdleNorm
    /\ IdleRun
    /\ IdleTry
    /\ IdleExport

\* generate_app, outlets: the tag is cleaned and resolved against labels.outs
ResolveOutletLabel ==
    /\ lr_runs < 2
    /\ lr_result' = [site |-> "outs",
                     sel  |-> ResolveLabel(lr_table, OutletLabel(lr_label))]
    /\ lr_runs' = lr_runs + 1
    /\ UNCHANGED <<lr_table, lr_label, ppVars, appVars, nzVars, runVars,
                   trVars, exVars>>

\* generate_app, parameters: the name is resolved against labels.params
ResolveParamLabel ==
    /\ lr_runs < 2
    /\ lr_result' = [site |-> "params", sel |-> ResolveParam(lr_table, lr_label)]
    /\ lr_runs' = lr_runs + 1
    /\ UNCHANGED <<lr_table, lr_label, ppVars, appVars, nzVars, runVars,
                   trVars, exVars>>

\* generate_app, data references: the name is resolved against labels.datas
ResolveDataLabel ==
    /\ lr_runs < 2
    /\ lr_result' = [site |-> "datas", sel |-> ResolveLabel(lr_table, lr_label)]
    /\ lr_runs' = lr_runs + 1
    /\ UNCHANGED <<lr_table, lr_label, ppVars, appVars, nzVars, runVars,
                   trVars, exVars>>

NextLabel == ResolveOutletLabel \/ ResolveParamLabel \/ ResolveDataLabel

SpecLabel == InitLabel /\ [][NextLabel]_vars

(***************************************************************************)
(* C4                                                                      *)
(***************************************************************************)
\* the label a site matches against the keys
MatchedLabel(site, raw) == IF site = "outs" THEN OutletLabel(raw) ELSE raw

MatchingKeys(keyset, label) == {k \in keyset : RegExpMatches(k, label)}

\* the matching key that is last in lexicographic order
LexLastMatch(keyset, label) ==
    IF MatchingKeys(keyset, label) = {} THEN undefined
    ELSE CHOOSE k \in MatchingKeys(keyset, label) :
             \A j \in MatchingKeys(keyset, label) : j = k \/ StrLess(j, k)

\* C4: every resolution, the first and a repeated one, at each of the three
\* sites, selects the key that is last in lexicographic order among the keys
\* the label matches, which depends on the set of keys and the label only
\* and not on the insertion order; it selects nothing when no key matches.
C4_LastLexicographicMatch ==
    lr_runs > 0 =>
        LET want == LexLastMatch(Range(lr_table.keys),
                                 MatchedLabel(lr_result.site, lr_label))
        IN  /\ lr_result.sel.key = want
            /\ want = undefined =>
                  IF lr_result.site = "params"
                  THEN lr_result.sel.src = undefined
                  ELSE lr_result.sel.map = undefined
            /\ want # undefined =>
                  IF lr_result.site = "params"
                  THEN lr_result.sel.src = lr_table.val[want]
                  ELSE lr_result.sel.map = lr_table.val[want]

\* a repeated resolution where two keys match and the one inserted last is
\* not the one selected
C4_Witness ==
    /\ lr_runs = 2
    /\ lr_result.sel.key # undefined
    /\ \E i, j \in 1..Len(lr_table.keys) :
          /\ i < j
          /\ lr_table.keys[i] = lr_result.sel.key
          /\ RegExpMatches(lr_table.keys[j],
                           MatchedLabel(lr_result.site, lr_label))

(***************************************************************************)
(* The parameter policy on its own: analyze_json, then the parameter node  *)
(***************************************************************************)
\* halves from -2*lo to 2*hi
Halves(lo, hi) == {Rat(h, 2) : h \in (-2 * lo)..(2 * hi)}

ParamMinimums == {undefined} \cup Halves(MaxParamMin, MaxParamMin)

ParamMaximums == {undefined, Num(127)} \cup Halves(0, MaxParamMax)

ParamInitials == {undefined, Num(0), Rat(1, 2), Num(1), Num(3)}

\* parameter names: no key matches "z"; "k" matches the key k
ParamNames ==
    {<<"z">>, <<"k">>, <<"k", "_", "i", "n", "t">>,
     <<"k", "_", "b", "o", "o", "l", "_", "x">>}

ParamLabels == IdentityTable(<<<<"k">>>>)

InitParam ==
    /\ pp_json \in [name : ParamNames, visible : BOOLEAN, index : {0},
                    initialValue : ParamInitials, minimum : ParamMinimums,
                    maximum : ParamMaximums]
    /\ pp_params = <<>>
    /\ pp_nodes = <<>>
    /\ pp_pc = "json"
    /\ IdleLabel
    /\ IdleApp
    /\ IdleNorm
    /\ IdleRun
    /\ IdleTry
    /\ IdleExport

\* analyze_json: desc.parameters.forEach(param => { if (param.visible) ... })
AnalyzeParam ==
    /\ pp_pc = "json"
    /\ pp_params' = IF pp_json.visible THEN <<ParamDesc(pp_json)>> ELSE <<>>
    /\ pp_pc' = "analyzed"
    /\ UNCHANGED <<pp_json, pp_nodes, lrVars, appVars, nzVars, runVars,
                   trVars, exVars>>

\* generate_app: rnbo.params = app.patch.params.map(...)
DeriveParam ==
    /\ pp_pc = "analyzed"
    /\ pp_nodes' = [i \in 1..Len(pp_params) |->
                        ParamNode(pp_params[i],
                                  ResolveParam(ParamLabels, pp_params[i].name))]
    /\ pp_pc' = "done"
    /\ UNCHANGED <<pp_json, pp_params, lrVars, appVars, nzVars, runVars,
                   trVars, exVars>>

NextParam == AnalyzeParam \/ DeriveParam

SpecParam == InitParam /\ [][NextParam]_vars

(***************************************************************************)
(* C10                                                                     *)
(***************************************************************************)
HasParamNode == pp_pc = "done" /\ pp_nodes # <<>>

\* the node of the one parameter of the description
TheParamNode == pp_nodes[1]

IntegerFloatParam ==
    /\ HasParamNode
    /\ TheParamNode.type = FloatType
    /\ IsInteger(TheParamNode.min) /\ IsInteger(TheParamNode.max)
    /\ IsInteger(TheParamNode.default)

\* C10 as stated: a float parameter with integer min, max and default and
\* 0 < range < 10 has the step size 1/12.
C10_Original ==
    (/\ IntegerFloatParam
     /\ RatLess(Num(0), TheParamNode.range)
     /\ RatLess(TheParamNode.range, Num(10)))
        => TheParamNode.stepsize = Rat(1, 12)

\* C10, amended: a float parameter node whose min, max and default (after
\* the defaults 0, 1, 0 replaced absent and zero values) are integers and
\* whose range satisfies 2 < range < 10 has the step size 1/12.
C10_StepTwelfth ==
    (/\ IntegerFloatParam
     /\ RatLess(Num(2), TheParamNode.range)
     /\ RatLess(TheParamNode.range, Num(10)))
        => TheParamNode.stepsize = Rat(1, 12)

\* min = 0 and max = 7 declared: the example of the specification
C10_Witness ==
    /\ IntegerFloatParam
    /\ pp_params[1].min = Num(0) /\ pp_params[1].max = Num(7)
    /\ TheParamNode.range = Num(7)
    /\ TheParamNode.stepsize = Rat(1, 12)

(***************************************************************************)
(* C11                                                                     *)
(***************************************************************************)
\* x is 2^p for the integer p nearest to log2(r / 100): r / 100 lies between
\* 2^(p - 1/2) and 2^(p + 1/2), compared on the squares
NearestPowerOfTwo(x, r) ==
    \E p \in -10..4 :
        /\ x = (IF p >= 0 THEN <<2 ^ p, 1>> ELSE <<1, 2 ^ (-p)>>)
        /\ LET q  == <<r[1] * r[1], r[2] * r[2] * 10000>>
               lo == IF 2 * p - 1 >= 0 THEN <<2 ^ (2 * p - 1), 1>>
                     ELSE <<1, 2 ^ (1 - 2 * p)>>
               hi == IF 2 * p + 1 >= 0 THEN <<2 ^ (2 * p + 1), 1>>
                     ELSE <<1, 2 ^ (-1 - 2 * p)>>
           IN  /\ lo[1] * q[2] <= q[1] * lo[2]
               /\ q[1] * hi[2] < hi[1] * q[2]

\* C11: the step size of every parameter node is that of the four branches:
\* 1 for int and bool; else 1/12 when 2 < range < 10 and max and default
\* are integers; else 2^round(log2(range/100)) when range >= 10 and max and
\* default are integers; else range/100.
C11_FourBranches ==
    HasParamNode =>
        LET n        == TheParamNode
            integers == n.max[2] = 1 /\ n.default[2] = 1
            above2   == 2 * n.range[2] < n.range[1]
            below10  == n.range[1] < 10 * n.range[2]
        IN  /\ n.type \in {IntType, BoolType} => n.stepsize = <<1, 1>>
            /\ (n.type \notin {IntType, BoolType} /\ integers /\ above2 /\ below10)
                   => n.stepsize = <<1, 12>>
            /\ (n.type \notin {IntType, BoolType} /\ integers /\ ~below10)
                   => NearestPowerOfTwo(n.stepsize, n.range)
            /\ (n.type \notin {IntType, BoolType} /\ ~(integers /\ above2))
                   => n.stepsize[1] * n.range[2] * 100 = n.range[1] * n.stepsize[2]

\* min = 0, max = 127 and default = 0 declared: the step size is 1
C11_Witness ==
    /\ HasParamNode
    /\ TheParamNode.type = FloatType
    /\ pp_params[1].min = Num(0) /\ pp_params[1].max = Num(127)
    /\ pp_params[1].default = Num(0)
    /\ TheParamNode.range = Num(127)
    /\ TheParamNode.stepsize = Num(1)

(***************************************************************************)
(* C12                                                                     *)
(***************************************************************************)
\* the value the description declares, or the fallback when it declares none
DeclaredOr(v, fallback) == IF v = undefined THEN fallback ELSE v

\* C12: the node of a visible parameter has the declared minimum, maximum
\* and initial value as min, max and default, a declared 0 included, and
\* 0, 1 and 0 only where the description declares none; its range is that
\* max minus that min.
C12_DeclaredValuesKept ==
    HasParamNode =>
        /\ TheParamNode.min = DeclaredOr(pp_json.minimum, <<0, 1>>)
        /\ TheParamNode.max = DeclaredOr(pp_json.maximum, <<1, 1>>)
        /\ TheParamNode.default = DeclaredOr(pp_json.initialValue, <<0, 1>>)
        /\ TheParamNode.range
              = RatSub(DeclaredOr(pp_json.maximum, <<1, 1>>),
                       DeclaredOr(pp_json.minimum, <<0, 1>>))

(***************************************************************************)
(* generate_app, step by step                                              *)
(***************************************************************************)
InputNames == {<<"k">>, <<"c">>, <<"g">>, <<"h">>}

\* hardware.inputs with the keys in the order of q and the automap flags f
InputTable(q, f) == [keys |-> q, val |-> [n \in Range(q) |-> [automap |-> f[n]]]]

InputTables ==
    UNION {{InputTable(q, f) : f \in [Range(q) -> BOOLEAN]} :
           q \in DistinctSeqs(InputNames, MaxInputs)}

\* labels.params: "k" names the input k, "d" names x, which is no node
ParamLabelTable ==
    [keys |-> <<<<"k">>, <<"d">>>>,
     val  |-> (<<"k">> :> <<"k">>) @@ (<<"d">> :> <<"x">>)]

\* parameter names: k_a resolves to the input k, d_b to x, p and q to nothing
AppParamNames == {<<"k", "_", "a">>, <<"d", "_", "b">>, <<"p">>, <<"q">>}

PatchParams(q) ==
    [i \in 1..Len(q) |->
        [name |-> q[i], cindex |-> i - 1, default |-> undefined,
         min |-> undefined, max |-> undefined]]

\* hardware.outputs and labels.outs: one LED, written in the audio callback
OutputTable ==
    [keys |-> <<<<"l", "e", "d">>>>,
     val  |-> (<<"l", "e", "d">> :>
                 [where |-> WhereAudio,
                  code |-> <<<<"lit", <<"s", "e", "t", " ">>>>, <<"var", "name">>>>])]

OutLabelTable == IdentityTable(<<<<"l", "e", "d">>>>)

\* outlet tags: led_x and led are routed to the LED, o is audio, the tag in
\* quotes too
OutletTags ==
    {<<"l", "e", "d", "_", "x">>, <<"l", "e", "d">>, <<"o">>, <<"\"", "o", "\"">>}

InletTags == {<<"i">>}

TagSeqs(S, n) == UNION {[1..m -> S] : m \in 0..n}

Hardware(inputs, io) ==
    [inputs  |-> inputs,
     outputs |-> OutputTable,
     labels  |-> [params |-> ParamLabelTable, outs |-> OutLabelTable],
     defines |-> [OOPSY_IO_COUNT |-> io]]

\* let midiuse = "none"
DefaultConfig == [midiuse |-> "none"]

InitAppCommon ==
    /\ app_nodes = NoNodes
    /\ app_daisy = Idle
    /\ app_rnbo = Idle
    /\ app_audio_outs = <<>>
    /\ app_code = <<>>
    /\ app_callbacks = NoCallbacks
    /\ app_pc = "start"
    /\ IdleLabel
    /\ IdleParam
    /\ IdleNorm
    /\ IdleRun
    /\ IdleTry
    /\ IdleExport

\* the control side varies: the inputs and the parameters
InitAppControl ==
    /\ app_hw \in {Hardware(t, 2) : t \in InputTables}
    /\ app_patch \in {[ins |-> <<<<"i">>>>,
                       outs |-> <<<<"l", "e", "d", "_", "x">>, <<"o">>>>,
                       params |-> PatchParams(q)] :
                      q \in DistinctSeqs(AppParamNames, MaxParams)}
    /\ app_config = DefaultConfig
    /\ InitAppCommon

\* the audio side varies: the raw channels, the inlets and the outlets
InitAppAudio ==
    /\ app_hw \in {Hardware(InputTable(<<<<"k">>>>, (<<"k">> :> TRUE)), io) :
                   io \in 0..MaxIO}
    /\ app_patch \in {[ins |-> i, outs |-> o,
                       params |-> PatchParams(<<<<"p">>>>)] :
                      i \in TagSeqs(InletTags, MaxInlets),
                      o \in TagSeqs(OutletTags, MaxOutlets)}
    /\ app_config = DefaultConfig
    /\ InitAppCommon

\* fragment templates: one that names the node, one that reads a field the
\* node does not have
CodeOfName == <<<<"lit", <<"s", "e", "t", " ">>>>, <<"var", "name">>>>

CodeOfGain == <<<<"lit", <<"s", "e", "t", " ">>>>, <<"var", "gain">>>>

\* the entries of hardware.outputs: the domain declared or not
OutputConfigs ==
    {[code |-> c] : c \in {CodeOfName, CodeOfGain}}
    \cup {[code |-> c, where |-> w] :
            c \in {CodeOfName, CodeOfGain},
            w \in {WhereAudio, WhereMain, WhereDisplay}}

EmitOutputTables ==
    {[keys |-> <<<<"l", "e", "d">>, <<"c", "v">>>>,
      val  |-> (<<"l", "e", "d">> :> a) @@ (<<"c", "v">> :> b)] :
        a \in OutputConfigs, b \in OutputConfigs}

\* the entries of hardware.inputs: with or without a domain, with or without
\* an update fragment
InputConfigs ==
    LET base == {[automap |-> TRUE, code |-> <<"r", "e", "a", "d">>]}
        dom  == base \cup {b @@ [where |-> WhereMain] : b \in base}
    IN  dom \cup {d @@ [update |-> [where |-> w, code |-> CodeOfName]] :
                    d \in dom, w \in {WhereAudio, WhereMain}}

EmitInputTables ==
    {[keys |-> <<<<"k">>>>, val |-> (<<"k">> :> c)] : c \in InputConfigs}

EmitOutletTags == {<<"l", "e", "d", "_", "x">>, <<"c", "v">>, <<"o">>}

\* the emission varies: the domains and fragments of the inputs and outputs,
\* and which of them the patch uses
InitAppEmit ==
    /\ app_hw \in {[inputs  |-> i,
                    outputs |-> o,
                    labels  |-> [params |-> ParamLabelTable,
                                 outs |-> IdentityTable(o.keys)],
                    defines |-> [OOPSY_IO_COUNT |-> 2]] :
                   i \in EmitInputTables, o \in EmitOutputTables}
    /\ app_patch \in {[ins |-> <<<<"i">>>>, outs |-> o,
                       params |-> PatchParams(q)] :
                      o \in TagSeqs(EmitOutletTags, MaxEmitOutlets),
                      q \in {<<>>, <<<<"p">>>>}}
    /\ app_config = DefaultConfig
    /\ InitAppCommon

\* const daisy = generate_daisy(hardware, nodes, target)
GenerateDaisyStep ==
    /\ app_pc = "start"
    /\ app_nodes' = GenerateDaisyNodes(app_hw)
    /\ app_daisy' = GenerateDaisy(app_hw)
    /\ app_pc' = "daisy"
    /\ UNCHANGED <<app_hw, app_patch, app_config, app_rnbo, app_audio_outs, app_code, app_callbacks,
                   lrVars, ppVars, nzVars, runVars,
                   trVars, exVars>>

AudioInsStep ==
    /\ app_pc = "daisy"
    /\ app_nodes' = AudioIns(0, app_patch.ins, app_daisy, app_nodes)
    /\ app_rnbo' = [audio_ins |-> [i \in 1..Len(app_patch.ins) |-> RnboIn(i)]]
    /\ app_pc' = "ins"
    /\ UNCHANGED <<app_hw, app_patch, app_config, app_daisy, app_audio_outs, app_code, app_callbacks,
                   lrVars, ppVars, nzVars, runVars,
                   trVars, exVars>>

AudioOutsStep ==
    /\ app_pc = "ins"
    /\ LET st == AudioOuts(0, app_patch.outs, app_hw, app_daisy,
                           [nodes |-> app_nodes, audio_outs |-> <<>>])
       IN  /\ app_nodes' = st.nodes
           /\ app_audio_outs' = st.audio_outs
    /\ app_rnbo' = [audio_outs |-> [i \in 1..Len(app_patch.outs) |-> RnboOut(i)]]
                       @@ app_rnbo
    /\ app_pc' = "outs"
    /\ UNCHANGED <<app_hw, app_patch, app_config, app_daisy, app_code, app_callbacks, lrVars, ppVars, nzVars,
                   runVars,
                   trVars, exVars>>

\* nodes[src].to.push(varname) of a parameter whose src is a node without a
\* `to` list: a TypeError
ParamsThrows(params, hw, nodes) ==
    \E i \in 1..Len(params) :
        LET src == ResolveParam(hw.labels.params, params[i].name).src
        IN  Truthy(src) /\ src \in DOMAIN nodes /\ "to" \notin DOMAIN nodes[src]

\* node.to.length of a hardware input whose node has no `to` list: a
\* TypeError
FillPassThrows(keys, nodes) ==
    \E k \in Range(keys) : "to" \notin DOMAIN nodes[k]

\* the parameters, the data references, of which analyze_json gives none, and
\* the MIDI defines; an exception leaves generate_app
ParamsStep ==
    /\ app_pc = "outs"
    /\ IF ParamsThrows(app_patch.params, app_hw, app_nodes)
       THEN /\ app_pc' = "failed"
            /\ UNCHANGED <<app_hw, app_nodes, app_rnbo>>
       ELSE /\ app_nodes' = Params(0, app_patch.params, app_hw, app_nodes)
            /\ app_rnbo' = [params |-> ParamVarnames(app_patch.params),
                            datas |-> <<>>] @@ app_rnbo
            /\ app_hw' = MidiDefines(app_hw, app_config)
            /\ app_pc' = "params"
    /\ UNCHANGED <<app_patch, app_config, app_daisy, app_audio_outs, app_code,
                   app_callbacks, lrVars, ppVars, nzVars, runVars,
                   trVars, exVars>>

FillPassStep ==
    /\ app_pc = "params"
    /\ IF FillPassThrows(app_hw.inputs.keys, app_nodes)
       THEN /\ app_pc' = "failed"
            /\ UNCHANGED app_nodes
       ELSE /\ app_nodes' = FillPass(app_hw.inputs.keys, app_rnbo.params, 0,
                                     app_nodes)
            /\ app_pc' = "filled"
    /\ UNCHANGED <<app_hw, app_patch, app_config, app_daisy, app_rnbo, app_audio_outs,
                   app_code, app_callbacks, lrVars, ppVars, nzVars, runVars,
                   trVars, exVars>>

NormalizeStep ==
    /\ app_pc = "filled"
    /\ app_nodes' = NormalizeAudioOuts(0, app_daisy.audio_outs, <<>>, app_nodes)
    /\ app_pc' = "normalized"
    /\ UNCHANGED <<app_hw, app_patch, app_config, app_daisy, app_rnbo, app_audio_outs,
                   app_code, app_callbacks, lrVars, ppVars, nzVars, runVars,
                   trVars, exVars>>

\* the struct text; of it, the lines that copy or clear the raw outputs
EmitStep ==
    /\ app_pc = "normalized"
    /\ app_code' = EmitAudioOuts(app_daisy.audio_outs, app_nodes)
    /\ app_callbacks' = EmitCallbacks(app_daisy, app_rnbo, app_nodes)
    /\ app_pc' = "emitted"
    /\ UNCHANGED <<app_hw, app_patch, app_config, app_nodes, app_daisy, app_rnbo,
                   app_audio_outs, lrVars, ppVars, nzVars, runVars,
                   trVars, exVars>>

\* input names of a target: a knob, a name that an output has too, and a
\* name that a raw audio input has too
TargetInputNames == {<<"k">>, <<"l", "e", "d">>, DsyIn(1)}

\* parameter names: k_a and led_a are resolved to the inputs of these names
TargetParamNames == {<<"k", "_", "a">>, <<"l", "e", "d", "_", "a">>, <<"p">>}

DataHandlerTables ==
    {[keys |-> <<>>, val |-> <<>>],
     [keys |-> <<<<"h">>>>, val |-> (<<"h">> :> [code |-> <<"h">>])]}

MidiPorts ==
    {[p \in {} |-> 1], [OOPSY_TARGET_HAS_MIDI_INPUT |-> 1],
     [OOPSY_TARGET_HAS_MIDI_OUTPUT |-> 1],
     [OOPSY_TARGET_HAS_MIDI_INPUT |-> 1, OOPSY_TARGET_HAS_MIDI_OUTPUT |-> 1]}

MidiUses == {"none", "usb", "uart"}

\* the target as run hands it to generate_app: the label table of the
\* parameters names every input by its own name
TargetHardware(q, handlers, io, ports, midiuse) ==
    [inputs       |-> InputTable(q, [n \in Range(q) |-> TRUE]),
     datahandlers |-> handlers,
     outputs      |-> OutputTable,
     labels       |-> [params |-> IdentityTable(q), outs |-> OutLabelTable],
     defines      |-> RunMidiDefines(ports @@ [OOPSY_IO_COUNT |-> io], midiuse)]

\* the target varies: the names of its inputs, its data handlers, its raw
\* channels, its MIDI ports and the MIDI transport of the arguments
InitAppTarget ==
    /\ app_config \in [midiuse : MidiUses]
    /\ app_hw \in {TargetHardware(q, h, io, m, app_config.midiuse) :
                      q \in DistinctSeqs(TargetInputNames, MaxInputs),
                      h \in DataHandlerTables,
                      io \in 0..MaxTargetIO,
                      m \in MidiPorts}
    /\ app_patch \in {[ins |-> <<<<"i">>>>, outs |-> <<<<"o">>>>,
                       params |-> PatchParams(q)] :
                      q \in DistinctSeqs(TargetParamNames, MaxParams)}
    /\ InitAppCommon

NextApp ==
    \/ GenerateDaisyStep
    \/ AudioInsStep
    \/ AudioOutsStep
    \/ ParamsStep
    \/ FillPassStep
    \/ NormalizeStep
    \/ EmitStep

SpecAppControl == InitAppControl /\ [][NextApp]_vars

SpecAppAudio == InitAppAudio /\ [][NextApp]_vars

SpecAppEmit == InitAppEmit /\ [][NextApp]_vars

SpecAppTarget == InitAppTarget /\ [][NextApp]_vars

AppTypeOK == app_pc \in {"start", "daisy", "ins", "outs", "params", "filled",
                         "normalized", "emitted", "failed"}

(***************************************************************************)
(* C5, C6, C7: the automap fill pass                                       *)
(***************************************************************************)
InputKeys == app_hw.inputs.keys

Min(a, b) == IF a < b THEN a ELSE b

\* the inputs flagged automap whose `to` list is empty in nodes, in the
\* order of the input table
OpenInputs(nodes) ==
    SelectSeq(InputKeys, LAMBDA n : /\ app_hw.inputs.val[n].automap
                                    /\ Get(nodes[n], "to") = <<>>)

\* the parameters without src in nodes, in the order of the patch
OpenParams(nodes) ==
    SelectSeq(app_rnbo.params, LAMBDA q : ~Truthy(Get(nodes[q], "src")))

\* the edges input -> parameter of nodes: by a `to` list, by a src
ToEdges(nodes) ==
    {e \in Range(InputKeys) \X Range(app_rnbo.params) :
        e[2] \in Range(Get(nodes[e[1]], "to"))}

SrcEdges(nodes) ==
    {e \in Range(InputKeys) \X Range(app_rnbo.params) :
        Get(nodes[e[2]], "src") = e[1]}

\* the k-th open input paired with the k-th open parameter
ExpectedFill(nodes) ==
    {<<OpenInputs(nodes)[k], OpenParams(nodes)[k]>> :
        k \in 1..Min(Len(OpenInputs(nodes)), Len(OpenParams(nodes)))}

FillPassTaken == app_pc = "params" /\ app_pc' = "filled"

AfterFill == app_pc \in {"filled", "normalized", "emitted"}

\* C5: the fill pass adds exactly the edges that pair the k-th open input
\* with the k-th open parameter, min(N, M) of them, each both as the
\* parameter's src and as the one new entry of the input's `to` list, and
\* it changes nothing else.
C5_FillPassPairsInOrder ==
    [][FillPassTaken =>
        LET want == ExpectedFill(app_nodes)
        IN  /\ ToEdges(app_nodes') \ ToEdges(app_nodes) = want
            /\ SrcEdges(app_nodes') \ SrcEdges(app_nodes) = want
            /\ Cardinality(want) = Min(Len(OpenInputs(app_nodes)),
                                       Len(OpenParams(app_nodes)))
            /\ \A e \in want :
                  /\ Get(app_nodes'[e[1]], "to") = <<e[2]>>
                  /\ app_nodes'[e[2]] = [app_nodes[e[2]] EXCEPT !.src = e[1]]
            /\ DOMAIN app_nodes' = DOMAIN app_nodes
            /\ \A n \in DOMAIN app_nodes :
                  (\A e \in want : n # e[1] /\ n # e[2])
                      => app_nodes'[n] = app_nodes[n]
    ]_vars

\* the src the label resolution gave the i-th parameter of the patch
LabelSrc(i) == ResolveParam(app_hw.labels.params, app_patch.params[i].name).src

\* the pass has connected two parameters that stand on both sides of a
\* parameter that has its src from label matching
C5_Witness ==
    /\ app_pc = "filled"
    /\ \E i, j, l \in 1..Len(app_rnbo.params) :
          /\ i < j /\ j < l
          /\ ~Truthy(LabelSrc(i)) /\ Truthy(LabelSrc(j)) /\ ~Truthy(LabelSrc(l))
          /\ Truthy(Get(app_nodes[app_rnbo.params[i]], "src"))
          /\ Truthy(Get(app_nodes[app_rnbo.params[l]], "src"))

\* the inputs whose `to` list names the parameter
Controllers(nodes, q) ==
    {n \in Range(InputKeys) : q \in Range(Get(nodes[n], "to"))}

\* C6: the fill pass leaves the src of a parameter that had one as it is,
\* and in the finished graph no parameter is in the `to` lists of two
\* hardware inputs.
C6_OneControllingInput ==
    /\ [](AfterFill =>
            \A q \in Range(app_rnbo.params) :
                Cardinality(Controllers(app_nodes, q)) <= 1)
    /\ [][FillPassTaken =>
            \A q \in Range(app_rnbo.params) :
                Truthy(Get(app_nodes[q], "src"))
                    => Get(app_nodes'[q], "src") = Get(app_nodes[q], "src")
       ]_vars

\* a parameter keeps the input its label names, which lists it, next to a
\* parameter that the pass connected to another input
C6_Witness ==
    /\ app_pc = "emitted"
    /\ \E i, j \in 1..Len(app_rnbo.params) :
          /\ Truthy(LabelSrc(i))
          /\ Get(app_nodes[app_rnbo.params[i]], "src") = LabelSrc(i)
          /\ Controllers(app_nodes, app_rnbo.params[i]) = {LabelSrc(i)}
          /\ ~Truthy(LabelSrc(j))
          /\ Cardinality(Controllers(app_nodes, app_rnbo.params[j])) = 1

AutomapInputs == {n \in Range(InputKeys) : app_hw.inputs.val[n].automap}

\* C7 as stated: when generation completes, the `to` list of every input
\* flagged automap is non-empty.
C7_Original ==
    app_pc = "emitted" =>
        \A n \in AutomapInputs : Get(app_nodes[n], "to") # <<>>

\* C7, amended: when generation completes, either the `to` list of every
\* input flagged automap is non-empty or every parameter has a src.
C7_ConsumedOrNoParamLeft ==
    app_pc = "emitted" =>
        \/ \A n \in AutomapInputs : Get(app_nodes[n], "to") # <<>>
        \/ \A q \in Range(app_rnbo.params) : Truthy(Get(app_nodes[q], "src"))

\* the pass has consumed one automap input and the parameters ran out for
\* another
C7_Witness ==
    /\ app_pc = "emitted"
    /\ \E n, m \in AutomapInputs :
          /\ Get(app_nodes[n], "to") = <<>>
          /\ \E j \in 1..Len(app_rnbo.params) :
                /\ ~Truthy(LabelSrc(j))
                /\ Get(app_nodes[m], "to") = <<app_rnbo.params[j]>>

(***************************************************************************)
(* C8, C9: the audio out normalization                                     *)
(***************************************************************************)
RawOuts == app_daisy.audio_outs

\* the raw outputs before position i (from 1) that have a src in nodes
SourcedBefore(nodes, i) ==
    SelectSeq(SubSeq(RawOuts, 1, i - 1),
              LAMBDA n : Truthy(Get(nodes[n], "src")))

NormalizeTaken == app_pc = "filled" /\ app_pc' = "normalized"

\* C8: the normalization leaves a raw output that has a src alone; it gives
\* one without src the preceding sourced output at index (position mod
\* count), position counted from 0, when there is one, and no src
\* otherwise; an output filled this way is the src of no later one; and an
\* output that ends without src is cleared by a memset.
C8_FanIn ==
    /\ [][NormalizeTaken =>
            \A i \in 1..Len(RawOuts) :
                LET name  == RawOuts[i]
                    avail == SourcedBefore(app_nodes, i)
                    had   == Truthy(Get(app_nodes[name], "src"))
                IN  /\ had => app_nodes'[name] = app_nodes[name]
                    /\ (~had /\ avail # <<>>) =>
                          /\ Get(app_nodes'[name], "src")
                                = avail[((i - 1) % Len(avail)) + 1]
                          /\ \A j \in (i + 1)..Len(RawOuts) :
                                Get(app_nodes'[RawOuts[j]], "src") # name
                    /\ (~had /\ avail = <<>>) =>
                          ~Truthy(Get(app_nodes'[name], "src"))
       ]_vars
    /\ [](app_pc = "emitted" =>
            \A i \in 1..Len(RawOuts) :
                ~Truthy(Get(app_nodes[RawOuts[i]], "src")) =>
                    \E c \in Range(app_code) :
                        c.op = "memset" /\ c.dst = RawOuts[i])

\* the example: out1 has a src, out2 and out3 had none and both take out1,
\* copied by a memcpy
C8_Witness ==
    /\ app_pc = "emitted"
    /\ Len(RawOuts) >= 3
    /\ Get(app_nodes[DsyOut(1)], "src") = DsyOut(1)
    /\ Get(app_nodes[DsyOut(2)], "src") = DsyOut(1)
    /\ Get(app_nodes[DsyOut(3)], "src") = DsyOut(1)
    /\ \E c \in Range(app_code) :
          c.op = "memcpy" /\ c.dst = DsyOut(3) /\ c.src = DsyOut(1)

\* after the outlets a raw output with a src is its own src, so that in the
\* normalized graph the sourced outputs are those and the filled ones the
\* others that have a src
OwnSrc(n) == Get(app_nodes[n], "src") = n

Filled(n) == Truthy(Get(app_nodes[n], "src")) /\ ~OwnSrc(n)

OwnSrcBefore(i) == SelectSeq(SubSeq(RawOuts, 1, i - 1), OwnSrc)

AfterNormalize == app_pc \in {"normalized", "emitted"}

\* C9 as stated: a filled raw output has the nearest sourced output below
\* its own position as src.
C9_Original ==
    AfterNormalize =>
        \A i \in 1..Len(RawOuts) :
            Filled(RawOuts[i]) =>
                Get(app_nodes[RawOuts[i]], "src")
                    = OwnSrcBefore(i)[Len(OwnSrcBefore(i))]

\* C9, amended: a filled raw output has as src the sourced output below its
\* own position that stands at index (position mod count) among them,
\* position counted from 0; that is the nearest one only when this index
\* is the last.
C9_ModuloOfAssigned ==
    AfterNormalize =>
        \A i \in 1..Len(RawOuts) :
            Filled(RawOuts[i]) =>
                /\ OwnSrcBefore(i) # <<>>
                /\ Get(app_nodes[RawOuts[i]], "src")
                      = OwnSrcBefore(i)[((i - 1) % Len(OwnSrcBefore(i))) + 1]

\* out1 and out2 are sourced and out3 takes out1, which is not the nearest
C9_Witness ==
    /\ app_pc = "normalized"
    /\ Len(RawOuts) >= 3
    /\ OwnSrc(DsyOut(1)) /\ OwnSrc(DsyOut(2))
    /\ Get(app_nodes[DsyOut(3)], "src") = DsyOut(1)

(***************************************************************************)
(* The target normalizer of run(), step by step                            *)
(***************************************************************************)
EmptyTable == [keys |-> <<>>, val |-> [n \in {} |-> <<>>]]

KindBogus == <<"B", "o", "g", "u", "s">>

\* the kinds the descriptors name: three of the registry and one that is not
InstanceKinds == {KindSwitch, KindLed, KindCVOuts, KindBogus}

InstanceNames == {<<"x">>, <<"x", "1">>, <<"y">>}

\* what a descriptor says of an instance besides its kind
InstanceOverrides ==
    {[n \in {} |-> <<>>],
     "pin" :> <<"string", "D7">>,
     "invert" :> null,
     "automap" :> <<"boolean", "true">>}

Instances ==
    {[name |-> n, def |-> ("component" :> <<"string", k>>) @@ o] :
        n \in InstanceNames, k \in InstanceKinds, o \in InstanceOverrides}

\* the "components" object: its keys are distinct
ComponentObjects ==
    {q \in DistinctSeqs(Instances, MaxComponents) :
        \A i, j \in 1..Len(q) : i # j => q[i].name # q[j].name}

\* a descriptor of the old format: its own "inputs" and "labels"
LegacyInputs ==
    TablePut(EmptyTable, <<"k">>,
             [automap |-> TRUE, from |-> <<>>, where |-> undefined])

LegacyParams == TablePut(EmptyTable, <<"k">>, <<"k">>)

AliasObjects == {<<>>, <<[alias |-> <<"z">>, map |-> <<"x">>]>>,
                 <<[alias |-> <<"z">>, map |-> <<"k">>]>>,
                 <<[alias |-> <<"z">>, map |-> <<"k">>],
                   [alias |-> <<"y">>, map |-> <<"z">>]>>}

\* hardware = JSON.parse(...), then the compatibility defaults
InitNorm ==
    /\ nz_json \in {j \in [has_components : BOOLEAN,
                           components : ComponentObjects,
                           legacy : BOOLEAN,
                           aliases : AliasObjects] :
                        ~j.has_components => j.components = <<>>}
    /\ nz_hw = [components |-> <<>>,
                struct |-> <<>>,
                io |-> [inputs  |-> IF nz_json.legacy THEN LegacyInputs
                                    ELSE EmptyTable,
                        outputs |-> EmptyTable,
                        params  |-> IF nz_json.legacy THEN LegacyParams
                                    ELSE EmptyTable,
                        outs    |-> EmptyTable]]
    /\ nz_error = <<>>
    /\ nz_pc = "parsed"
    /\ IdleLabel
    /\ IdleParam
    /\ IdleApp
    /\ IdleRun
    /\ IdleTry
    /\ IdleExport

\* hardware.struct = generate_target_struct(hardware); an exception leaves
\* run() and nothing of hardware is assigned
GenerateStructStep ==
    /\ nz_pc = "parsed"
    /\ nz_json.has_components
    /\ LET r == GenerateTargetStruct(nz_json.components)
       IN  IF r.error # <<>>
           THEN /\ nz_error' = r.error
                /\ nz_pc' = "failed"
                /\ UNCHANGED nz_hw
           ELSE /\ nz_hw' = [nz_hw EXCEPT !.components = r.components,
                                          !.struct = r.struct]
                /\ nz_pc' = "struct"
                /\ UNCHANGED nz_error
    /\ UNCHANGED <<nz_json, lrVars, ppVars, appVars, runVars,
                   trVars, exVars>>

\* for (let component of hardware.components) ...
FlattenStep ==
    /\ nz_pc = "struct"
    /\ nz_hw' = [nz_hw EXCEPT !.io = FlattenComponents(@, nz_hw.components)]
    /\ nz_pc' = "flattened"
    /\ UNCHANGED <<nz_json, nz_error, lrVars, ppVars, appVars, runVars,
                   trVars, exVars>>

\* for (let alias in hardware.aliases) ...: also of a descriptor that has no
\* components
AliasStep ==
    /\ \/ nz_pc = "flattened"
       \/ nz_pc = "parsed" /\ ~nz_json.has_components
    /\ nz_hw' = [nz_hw EXCEPT !.io = ResolveAliases(@, nz_json.aliases)]
    /\ nz_pc' = "normalized"
    /\ UNCHANGED <<nz_json, nz_error, lrVars, ppVars, appVars, runVars,
                   trVars, exVars>>

NextNorm == GenerateStructStep \/ FlattenStep \/ AliasStep

SpecNorm == InitNorm /\ [][NextNorm]_vars

(***************************************************************************)
(* C1, C2, C3: the normalized target                                       *)
(***************************************************************************)
\* the run is over: it was abandoned, or the target is normalized
NormEnded == nz_pc \in {"failed", "normalized"}

DescribedKinds ==
    {nz_json.components[i].def.component[2] : i \in 1..Len(nz_json.components)}

UnknownKinds == DescribedKinds \ DOMAIN component_defs

\* the tables as they were before any component was flattened
TablesUntouched ==
    /\ nz_hw.io.inputs = (IF nz_json.legacy THEN LegacyInputs ELSE EmptyTable)
    /\ nz_hw.io.outputs = EmptyTable

\* C1: when the descriptor has an instance of a kind that is not in the
\* registry, the run ends with an error that names that kind, and neither
\* the flattened tables nor the struct text are produced.
C1_UnknownKindNamed ==
    (NormEnded /\ UnknownKinds # {}) =>
        /\ nz_pc = "failed"
        /\ nz_error[1].type = "Error"
        /\ nz_error[1].kind \in UnknownKinds
        /\ TablesUntouched
        /\ nz_hw.struct = <<>>

\* the instance of the descriptor as the claim has it normalized: the name,
\* the user's fields, and the registry's fields where the user set none
ExpectedInstance(e) ==
    LET def == ("name" :> <<"string", e.name>>) @@ e.def
        reg == component_defs[e.def.component[2]]
    IN  [k \in DOMAIN def \cup DOMAIN reg |->
            IF k \in DOMAIN reg /\ Nullish(def, k) THEN reg[k] ELSE def[k]]

TemplateSyntax == {"$", "{", "}"}

\* the table names of an instance's mappings, the instance name substituted
ExpectedNames(e, readable) ==
    LET c == ExpectedInstance(e)
    IN  {Template(c.mapping[2][i].name, c) :
            i \in {i \in 1..Len(c.mapping[2]) :
                     IF readable THEN c.mapping[2][i].get
                     ELSE c.mapping[2][i].set}}

\* C2: after normalization an instance has the user's value in every field
\* the user set and the registry default of its kind in every other field,
\* and each of its mapping names is in its table with the instance name
\* substituted and no template syntax left.
C2_DefaultsMerged ==
    (NormEnded /\ UnknownKinds = {}) =>
        \A i \in 1..Len(nz_json.components) :
            LET e == nz_json.components[i]
            IN  /\ \E j \in 1..Len(nz_hw.components) :
                       nz_hw.components[j] = ExpectedInstance(e)
                /\ ExpectedNames(e, TRUE) \subseteq Range(nz_hw.io.inputs.keys)
                /\ ExpectedNames(e, FALSE) \subseteq Range(nz_hw.io.outputs.keys)
                /\ \A n \in ExpectedNames(e, TRUE) \cup ExpectedNames(e, FALSE) :
                       Range(n) \cap TemplateSyntax = {}

\* how many mappings the instances of the descriptor have, readable or writable
RECURSIVE MappingCount(_, _)
MappingCount(entries, readable) ==
    IF entries = <<>> THEN 0
    ELSE LET c == ExpectedInstance(Head(entries))
             n == Cardinality({i \in 1..Len(c.mapping[2]) :
                                  IF readable THEN c.mapping[2][i].get
                                  ELSE c.mapping[2][i].set})
         IN  n + MappingCount(Tail(entries), readable)

LegacyCount == IF nz_json.legacy THEN 1 ELSE 0

\* C3: flattening loses no mapping: the input table has one entry for each
\* readable mapping of the instances and the output table one for each
\* writable mapping, none overwritten by another.
C3_OneEntryPerMapping ==
    (NormEnded /\ UnknownKinds = {}) =>
        /\ Len(nz_hw.io.inputs.keys)
             = LegacyCount + MappingCount(nz_json.components, TRUE)
        /\ Len(nz_hw.io.outputs.keys)
             = MappingCount(nz_json.components, FALSE)

(***************************************************************************)
(* C13: the callbacks of the node fragments                                *)
(***************************************************************************)
Domains == {WhereAudio, WhereMain, WhereDisplay}

\* the domain an entry declares, audio when it declares none
DomainOf(entry) ==
    IF Get(entry, "where") = undefined THEN WhereAudio ELSE entry.where

CallbackOf(w) ==
    IF w = WhereAudio THEN app_callbacks.audio
    ELSE IF w = WhereMain THEN app_callbacks.main
    ELSE app_callbacks.display

\* how often the callback of the domain w has a fragment of that kind of n
Emitted(kind, n, w) ==
    Cardinality({i \in 1..Len(CallbackOf(w)) :
                    CallbackOf(w)[i].kind = kind /\ CallbackOf(w)[i].node = n})

\* C13: the read fragment of every hardware input that is used and the write
\* fragment of every hardware output that is driven are once in the callback
\* of the node's domain, audio when none is declared, and in no other.
C13_FragmentInItsDomain ==
    app_pc = "emitted" =>
        /\ \A n \in Range(app_hw.inputs.keys) :
              Get(app_nodes[n], "to") # <<>> =>
                  \A w \in Domains :
                      Emitted("read", n, w)
                          = IF w = DomainOf(app_hw.inputs.val[n]) THEN 1 ELSE 0
        /\ \A n \in Range(app_hw.outputs.keys) :
              OutputDriven(app_nodes[n]) =>
                  \A w \in Domains :
                      Emitted("write", n, w)
                          = IF w = DomainOf(app_hw.outputs.val[n]) THEN 1 ELSE 0

(***************************************************************************)
(* C14: fragments that reference a field the node does not have            *)
(***************************************************************************)
\* every $<field> of the template names a field of the node
Resolved(parts, node) ==
    \A i \in 1..Len(parts) : parts[i][1] = "var" => parts[i][2] \in DOMAIN node

\* C14: generation does not complete with the fragment of a node whose
\* template references a field the node does not have: no callback of the
\* finished text has the fragment of such a template.
C14_UnresolvedReferenceFatal ==
    app_pc = "emitted" =>
        \A n \in Range(app_hw.outputs.keys) :
            (\E w \in Domains : Emitted("write", n, w) > 0)
                => Resolved(app_hw.outputs.val[n].code, app_nodes[n])

(***************************************************************************)
(* C15: cycles along src and along `to`                                    *)
(***************************************************************************)
\* the nodes that the nodes of S name as src
SrcStep(S) == {Get(app_nodes[n], "src") : n \in S} \cap DOMAIN app_nodes

\* the nodes in the `to` lists of the nodes of S
ToStep(S) ==
    UNION {IF "to" \in DOMAIN app_nodes[n] THEN Range(app_nodes[n].to) ELSE {} :
           n \in S} \cap DOMAIN app_nodes

RECURSIVE SrcReach(_, _)
SrcReach(S, k) == IF k = 0 THEN S ELSE SrcReach(S \cup SrcStep(S), k - 1)

RECURSIVE ToReach(_, _)
ToReach(S, k) == IF k = 0 THEN S ELSE ToReach(S \cup ToStep(S), k - 1)

NodeCount == Cardinality(DOMAIN app_nodes)

\* C15 as stated: in the finished graph, following src from a node never
\* returns to it, no node being its own src, and neither does following `to`.
C15_Original ==
    app_pc = "emitted" =>
        \A n \in DOMAIN app_nodes :
            /\ n \notin SrcReach(SrcStep({n}), NodeCount)
            /\ n \notin ToReach(ToStep({n}), NodeCount)

\* the buffers of the outlets: raw audio outputs and intermediate buffers
OutletBuffers ==
    {Get(app_nodes[o], "src") : o \in Range(app_rnbo.audio_outs)}
        \cap (Range(RawOuts) \cup Range(app_audio_outs))

\* C15, amended: in the finished graph the only node that is reached again
\* by following src is a buffer of an outlet (a raw audio output or an
\* intermediate buffer), which is its own src; following src from a node
\* never returns to it through another node, and following `to` never
\* returns to it.
C15_OnlyBufferSelfSrc ==
    app_pc = "emitted" =>
        \A n \in DOMAIN app_nodes :
            /\ Get(app_nodes[n], "src") = n => n \in OutletBuffers
            /\ n \notin SrcReach(SrcStep({n}) \ {n}, NodeCount)
            /\ n \notin ToReach(ToStep({n}), NodeCount)

\* an outlet on a raw output and one on an intermediate buffer, both their
\* own src, and a raw output that the normalization gave the first as src
C15_Witness ==
    /\ app_pc = "emitted"
    /\ app_audio_outs # <<>>
    /\ OwnSrc(app_audio_outs[1])
    /\ Len(RawOuts) >= 2
    /\ OwnSrc(DsyOut(1))
    /\ \E i \in 2..Len(RawOuts) : Get(app_nodes[RawOuts[i]], "src") = DsyOut(1)

(***************************************************************************)
(* C19: the inlets take the raw inputs round-robin                         *)
(***************************************************************************)
\* how many times x occurs in the list
Count(seq, x) == Cardinality({k \in 1..Len(seq) : seq[k] = x})

\* the `to` lists of the graph
ToLists(nodes) ==
    [n \in {m \in DOMAIN nodes : "to" \in DOMAIN nodes[m]} |-> nodes[n].to]

\* C19: once the inlets are instantiated, with R > 0 raw audio inputs the
\* inlet at 0-based position i has raw input number (i mod R) as src and is
\* exactly once in that raw input's `to` list; with R = 0 the inlet has no
\* src and no `to` list has changed.
C19_InletRoundRobin ==
    [][AudioInsStep =>
        LET R == app_hw.defines.OOPSY_IO_COUNT
        IN  \A i \in 0..(Len(app_patch.ins) - 1) :
                LET inlet == RnboIn(i + 1)
                    raw   == DsyIn((i % R) + 1)
                IN  IF R > 0
                    THEN /\ app_nodes'[inlet].src = raw
                         /\ Count(app_nodes'[raw].to, inlet) = 1
                    ELSE /\ ~Truthy(app_nodes'[inlet].src)
                         /\ ToLists(app_nodes') = ToLists(app_nodes)]_vars

\* three inlets on two raw inputs: the third wraps around to the first
C19_Witness ==
    /\ app_pc = "ins"
    /\ Len(app_daisy.audio_ins) = 2
    /\ Len(app_patch.ins) = 3
    /\ app_nodes[RnboIn(3)].src = DsyIn(1)
    /\ app_nodes[DsyIn(1)].to = <<RnboIn(1), RnboIn(3)>>

(***************************************************************************)
(* C20: the outlets, their buffers and the hardware outputs they feed      *)
(***************************************************************************)
\* the output keys, and the last of them in order that matches the label
OutKeys == Range(app_hw.labels.outs.keys)

LastKey(label) == LexLastMatch(OutKeys, label)

MappedOutput(label) == app_hw.labels.outs.val[LastKey(label)]

\* what follows the key and one underscore, the full label when that is
\* nothing
Remainder(k, label) ==
    LET rest == SubSeq(label, Len(k) + 1, Len(label))
        cut  == IF rest # <<>> /\ rest[1] = "_" THEN Tail(rest) ELSE rest
    IN  IF cut = <<>> THEN label ELSE cut

\* the buffer of the outlet at position j, counted from 1
BufferAt(j) ==
    IF j <= app_hw.defines.OOPSY_IO_COUNT THEN DsyOut(j) ELSE GlueOut(j)

\* the buffers of the outlets whose label maps to h, in outlet order
BuffersTo(h) ==
    LET outs == app_patch.outs
        sel  == SelectSeq([j \in 1..Len(outs) |-> j],
                          LAMBDA j : /\ MatchingKeys(OutKeys, OutletLabel(outs[j])) # {}
                                     /\ MappedOutput(OutletLabel(outs[j])) = h)
    IN  [k \in 1..Len(sel) |-> BufferAt(sel[k])]

\* C20: once the outlets are instantiated, the buffer of every outlet is the
\* raw audio output at its position when there is one and a new intermediate
\* buffer node otherwise; when the label matches an output key the buffer is
\* exactly once in the mapped hardware output's `from`, the hardware output
\* exactly once in the buffer's `to`, and the visible label is the captured
\* remainder or the full label; every `from` list has grown by the buffers
\* of the outlets mapped to it and by nothing else.
C20_OutletRouting ==
    [][AudioOutsStep =>
        /\ \A j \in 1..Len(app_patch.outs) :
               LET out   == RnboOut(j)
                   buf   == BufferAt(j)
                   label == OutletLabel(app_patch.outs[j])
               IN  /\ app_nodes'[out].src = buf
                   /\ buf \in DOMAIN app_nodes'
                   /\ (buf \in DOMAIN app_nodes)
                          <=> (j <= app_hw.defines.OOPSY_IO_COUNT)
                   /\ MatchingKeys(OutKeys, label) # {} =>
                          /\ Count(app_nodes'[MappedOutput(label)].from, buf) = 1
                          /\ Count(app_nodes'[buf].to, MappedOutput(label)) = 1
                          /\ app_nodes'[out].label
                                 = Remainder(LastKey(label), label)
        /\ \A h \in Range(app_daisy.device_outs) :
               app_nodes'[h].from = app_nodes[h].from \o BuffersTo(h)]_vars

\* three outlets on one raw output: led_x on the raw output, led on an
\* intermediate buffer, both feeding the LED, and an audio outlet feeding
\* nothing
C20_Witness ==
    /\ app_pc = "outs"
    /\ app_hw.defines.OOPSY_IO_COUNT = 1
    /\ app_patch.outs = <<<<"l", "e", "d", "_", "x">>, <<"l", "e", "d">>, <<"o">>>>
    /\ app_nodes[<<"l", "e", "d">>].from = <<DsyOut(1), GlueOut(2)>>
    /\ app_nodes[RnboOut(1)].label = <<"x">>
    /\ app_nodes[RnboOut(2)].label = <<"l", "e", "d">>
    /\ app_nodes[GlueOut(3)].to = <<>>

(***************************************************************************)
(* run: the patch list, the apps and the main source file                  *)
(***************************************************************************)
\* a patch path is [dir, base]: path.dirname and path.basename
Dirname(p) == p.dir

Basename(p) == p.base

\* cpps.reduce(...): of equal paths the first is kept
RECURSIVE Dedupe(_, _)
Dedupe(cpps, acc) ==
    IF cpps = <<>> THEN acc
    ELSE Dedupe(Tail(cpps),
                IF Head(cpps) \in Range(acc) THEN acc
                ELSE Append(acc, Head(cpps)))

\* the comparator of cpps.sort: -1 or 0, never a positive number
BasenameOrder(a, b) ==
    IF StrLess(Basename(a), Basename(b)) THEN -1 ELSE 0

\* Array.prototype.sort with this comparator, which is not a consistent one:
\* the order is left to the engine.  The insertion sort of the older engines
\* moves an element only past those that compare greater
RECURSIVE InsertBack(_, _)
InsertBack(pre, element) ==
    IF pre = <<>> THEN <<element>>
    ELSE IF BasenameOrder(pre[Len(pre)], element) > 0
         THEN Append(InsertBack(SubSeq(pre, 1, Len(pre) - 1), element),
                     pre[Len(pre)])
         ELSE Append(pre, element)

RECURSIVE InsertionSort(_, _)
InsertionSort(a, i) ==
    IF i >= Len(a) THEN a
    ELSE InsertionSort(InsertBack(SubSeq(a, 1, i), a[i + 1])
                           \o SubSeq(a, i + 2, Len(a)), i + 1)

\* the sort of the newer engines on a short array: the run at the head, made
\* ascending, and a binary insertion of the rest; both test for less than 0
Reverse(a) == [i \in 1..Len(a) |-> a[Len(a) + 1 - i]]

RECURSIVE RunLength(_, _, _)
RunLength(a, idx, descending) ==
    IF idx > Len(a) THEN idx - 1
    ELSE IF descending = (BasenameOrder(a[idx], a[idx - 1]) < 0)
         THEN RunLength(a, idx + 1, descending)
         ELSE idx - 1

RECURSIVE BinaryPosition(_, _, _, _)
BinaryPosition(a, pivot, left, right) ==
    IF left >= right THEN left
    ELSE LET mid == left + ((right - left) \div 2)
         IN  IF BasenameOrder(pivot, a[mid + 1]) < 0
             THEN BinaryPosition(a, pivot, left, mid)
             ELSE BinaryPosition(a, pivot, mid + 1, right)

RECURSIVE BinaryInsertionSort(_, _)
BinaryInsertionSort(a, start) ==
    IF start >= Len(a) THEN a
    ELSE LET pivot == a[start + 1]
             pos   == BinaryPosition(a, pivot, 0, start)
         IN  BinaryInsertionSort(SubSeq(a, 1, pos) \o <<pivot>>
                                     \o SubSeq(a, pos + 1, start)
                                     \o SubSeq(a, start + 2, Len(a)),
                                 start + 1)

TimSort(a) ==
    IF Len(a) < 2 THEN a
    ELSE LET descending == BasenameOrder(a[2], a[1]) < 0
             n          == RunLength(a, 3, descending)
             made       == IF descending
                           THEN Reverse(SubSeq(a, 1, n)) \o SubSeq(a, n + 1, Len(a))
                           ELSE a
         IN  BinaryInsertionSort(made, n)

SortEngines == {"insertion", "timsort"}

\* cpps.sort((a, b) => path.basename(a) < path.basename(b) ? -1 : 0)
SortCpps(engine, cpps) ==
    IF engine = "insertion" THEN InsertionSort(cpps, 1) ELSE TimSort(cpps)

\* hardware.max_apps = hardware.max_apps || 1
MaxAppsOf(target) ==
    IF "max_apps" \in DOMAIN target /\ target.max_apps # 0
    THEN target.max_apps ELSE 1

\* a variant of the truncation that keeps the whole list
Truncate_keep(cpps, max_apps) == cpps

\* cpps.length = hardware.max_apps, when there are more
Truncate(cpps, max_apps) ==
    IF max_apps # 0 /\ Len(cpps) > max_apps
    THEN SubSeq(cpps, 1, max_apps) ELSE cpps

\* console.log(`this target does not support more than ... apps`)
CapacityWarning(max_apps) == <<"capacity", max_apps>>

RunLog(cpps, max_apps) ==
    IF max_apps # 0 /\ Len(cpps) > max_apps
    THEN <<CapacityWarning(max_apps)>> ELSE <<>>

\* the hardware of the run: one knob, one LED, two raw channels
RunHardware(target) ==
    Hardware(InputTable(<<<<"k">>>>, (<<"k">> :> TRUE)), 2)
        @@ [max_apps |-> MaxAppsOf(target)]

\* analyze_json of the description.json that lies in the directory of a
\* patch: the directory a holds a patch that drives the LED, any other a
\* patch with an audio outlet
Description(dir) ==
    [name   |-> dir,
     ins    |-> <<<<"i">>>>,
     outs   |-> IF dir = <<"a">> THEN <<<<"l", "e", "d", "_", "x">>>>
                ELSE <<<<"o">>>>,
     params |-> PatchParams(<<<<"k", "_", "a">>>>)]

\* generate_app: the node graph and the struct text of one app
GenerateApp(path, patch, hw) ==
    LET daisy  == GenerateDaisy(hw)
        n0     == GenerateDaisyNodes(hw)
        n1     == AudioIns(0, patch.ins, daisy, n0)
        st     == AudioOuts(0, patch.outs, hw, daisy,
                            [nodes |-> n1, audio_outs |-> <<>>])
        n3     == Params(0, patch.params, hw, st.nodes)
        rnbo   == [audio_ins  |-> [i \in 1..Len(patch.ins) |-> RnboIn(i)],
                   audio_outs |-> [i \in 1..Len(patch.outs) |-> RnboOut(i)],
                   params     |-> ParamVarnames(patch.params),
                   datas      |-> <<>>]
        n4     == FillPass(hw.inputs.keys, rnbo.params, 0, n3)
        n5     == NormalizeAudioOuts(0, daisy.audio_outs, <<>>, n4)
    IN  [path  |-> path,
         patch |-> patch,
         nodes |-> n5,
         cpp   |-> [union  |-> <<"union", patch.name>>,
                    appdef |-> <<"appdef", patch.name>>,
                    struct |-> [name      |-> patch.name,
                                copies    |-> EmitAudioOuts(daisy.audio_outs, n5),
                                callbacks |-> EmitCallbacks(daisy, rnbo, n5)]]]

\* a variant of the main source file that repeats the date after the app
\* table
CppCode_stamped(date, hw, apps) ==
    <<<<"generated on", date>>, <<"defines", hw.defines>>>>
        \o [i \in 1..Len(apps) |-> <<"include", apps[i].path>>]
        \o [i \in 1..Len(apps) |-> <<"struct", apps[i].cpp.struct>>]
        \o [i \in 1..Len(apps) |-> apps[i].cpp.union]
        \o [i \in 1..Len(apps) |-> apps[i].cpp.appdef]
        \o <<<<"run", Len(apps)>>, <<"built on", date>>>>

\* cppcode, line by line: the comment with new Date(), the defines, the
\* includes, the structs, the union, the app table and the call of run with
\* its length
CppCode(date, hw, apps) ==
    <<<<"generated on", date>>, <<"defines", hw.defines>>>>
        \o [i \in 1..Len(apps) |-> <<"include", apps[i].path>>]
        \o [i \in 1..Len(apps) |-> <<"struct", apps[i].cpp.struct>>]
        \o [i \in 1..Len(apps) |-> apps[i].cpp.union]
        \o [i \in 1..Len(apps) |-> apps[i].cpp.appdef]
        \o <<<<"run", Len(apps)>>>>

NoRun == [error |-> <<"norun">>]

\* run(...args), from the removal of duplicates to the main source file
RunResult(args, target, engine, lib, date) ==
    LET deduped == Dedupe(args, <<>>)
        hw      == RunHardware(target)
        sorted  == SortCpps(engine, deduped)
        cpps    == Truncate(sorted, hw.max_apps)
        apps    == [i \in 1..Len(cpps) |->
                       GenerateApp(cpps[i], Description(Dirname(cpps[i])), hw)]
    IN  IF deduped = <<>> THEN [error |-> <<"TypeError">>]
        ELSE IF ~lib THEN [error |-> <<"RNBOLibError">>]
        ELSE [error |-> <<>>,
              log   |-> RunLog(sorted, hw.max_apps),
              apps  |-> apps,
              text  |-> CppCode(date, hw, apps)]

PatchDirs == {<<"a">>, <<"b">>}

PatchBases == {<<"x", ".", "c", "p", "p">>, <<"y", ".", "c", "p", "p">>}

PatchPaths == [dir : PatchDirs, base : PatchBases]

Targets ==
    {[name |-> <<"t">>]}
        \cup {[name |-> <<"t">>, max_apps |-> n] : n \in 0..MaxApps}

\* the dates that new Date() gives
Dates == {1, 2}

InitRun ==
    /\ run_args \in UNION {[1..n -> PatchPaths] : n \in 0..MaxPatches}
    /\ run_target \in Targets
    /\ run_sort \in SortEngines
    /\ run_lib \in BOOLEAN
    /\ run_out = NoRun
    /\ run_prev = NoRun
    /\ run_count = 0
    /\ IdleLabel
    /\ IdleParam
    /\ IdleApp
    /\ IdleNorm
    /\ IdleTry
    /\ IdleExport

\* one call of run; fs.renameSync moves the RNBO sources into the build path
Run ==
    /\ run_count < MaxRuns
    /\ \E date \in Dates :
           run_out' = RunResult(run_args, run_target, run_sort, run_lib, date)
    /\ run_prev' = run_out
    /\ run_lib' = (run_lib /\ run_out'.error # <<>>)
    /\ run_count' = run_count + 1
    /\ UNCHANGED <<run_args, run_target, run_sort, lrVars, ppVars, appVars,
                   nzVars, trVars, exVars>>

\* the patches are exported again: the RNBO sources are back
Export ==
    /\ ~run_lib
    /\ run_lib' = TRUE
    /\ UNCHANGED <<run_args, run_target, run_sort, run_out, run_prev,
                   run_count, lrVars, ppVars, appVars, nzVars, trVars,
                   exVars>>

NextRun == Run \/ Export

SpecRun == InitRun /\ [][NextRun]_vars

(***************************************************************************)
(* C17: more patches than the target has room for                          *)
(***************************************************************************)
\* the number of distinct patch paths of the argument list
DistinctPatches == Cardinality(Range(run_args))

\* the capacity of the target: max_apps, 1 when it declares none
Capacity ==
    IF "max_apps" \in DOMAIN run_target /\ run_target.max_apps > 0
    THEN run_target.max_apps ELSE 1

\* C17: a run that finds the RNBO sources and is given more distinct patches
\* than the target's max_apps does not fail: it logs the warning once and
\* generates max_apps apps, all of them patches of the argument list; in
\* every case it generates min(distinct patches, max_apps) apps.
C17_TruncatedNotFailed ==
    [][(Run /\ run_lib /\ DistinctPatches > 0) =>
          /\ run_out'.error = <<>>
          /\ Len(run_out'.apps) = Min(DistinctPatches, Capacity)
          /\ {run_out'.apps[i].path : i \in 1..Len(run_out'.apps)}
                 \subseteq Range(run_args)
          /\ Cardinality({run_out'.apps[i].path : i \in 1..Len(run_out'.apps)})
                 = Len(run_out'.apps)
          /\ run_out'.log = IF DistinctPatches > Capacity
                            THEN <<CapacityWarning(Capacity)>> ELSE <<>>]_vars

\* three distinct patches for a target with room for two
C17_Witness ==
    /\ run_count > 0
    /\ run_out.error = <<>>
    /\ DistinctPatches = 3
    /\ "max_apps" \in DOMAIN run_target
    /\ run_target.max_apps = 2
    /\ Len(run_out.apps) = 2
    /\ run_out.log = <<CapacityWarning(2)>>

(***************************************************************************)
(* C18: the default app                                                    *)
(***************************************************************************)
\* C18: after a run that generated apps, the first entry of the app table is
\* the app of the first patch path of the argument list, whatever paths
\* follow it.
C18_FirstIsDefault ==
    (run_count > 0 /\ run_out.error = <<>>) =>
        /\ run_out.apps[1].path = run_args[1]
        /\ run_out.text[2 + 3 * Len(run_out.apps) + 1]
               = <<"appdef", Description(Dirname(run_args[1])).name>>

(***************************************************************************)
(* C16: two runs from the same descriptors                                 *)
(***************************************************************************)
\* the last two calls of run both wrote the main source file; the arguments
\* and the target descriptor are the same in every call of a behaviour
TwoRunsCompleted == run_prev.error = <<>> /\ run_out.error = <<>>

NodeGraphs(result) == [i \in 1..Len(result.apps) |-> result.apps[i].nodes]

TypeOfFragment(frag) ==
    IF \E t \in TypeTokens : frag = t \/ IsPrefix(t \o <<"_">>, frag)
    THEN CHOOSE t \in TypeTokens : frag = t \/ IsPrefix(t \o <<"_">>, frag)
    ELSE FloatType

\* C21: the type of a resolved parameter is decided by the winning key, the
\* last one in order that matches: it is the type token of the fragment that
\* remains after that key, float when the fragment carries none, whatever
\* the fragments after earlier matching keys carried; a parameter that
\* matches no key is float.
C21_TypeFromWinningKey ==
    (lr_runs > 0 /\ lr_result.site = "params") =>
        LET keys == Range(lr_table.keys)
        IN  lr_result.sel.type
                = IF MatchingKeys(keys, lr_label) = {} THEN FloatType
                  ELSE TypeOfFragment(
                           Remainder(LexLastMatch(keys, lr_label), lr_label))

(***************************************************************************)
(* C22: aliases                                                            *)
(***************************************************************************)
\* the hardware node that a parameter name resolves to
ParamSource(name) == ResolveParam(nz_hw.io.params, name).src

\* C22: in the normalized target, for every declared alias whose target name
\* is a key of the parameter labels, the alias resolves to the node that the
\* target name resolves to, and that node is one of the hardware inputs, of
\* which generate_daisy makes the nodes; also when the target name is itself
\* an alias.
C22_AliasResolvesAsTarget ==
    nz_pc = "normalized" =>
        \A i \in 1..Len(nz_json.aliases) :
            LET a == nz_json.aliases[i]
            IN  a.map \in Range(nz_hw.io.params.keys) =>
                    /\ ParamSource(a.alias) = ParamSource(a.map)
                    /\ ParamSource(a.alias) \in Range(nz_hw.io.inputs.keys)

(***************************************************************************)
(* C23: generate_app and the normalized target                             *)
(***************************************************************************)
\* the tables of the target that generate_app reads
TargetTables(hw) ==
    [inputs       |-> hw.inputs,
     outputs      |-> hw.outputs,
     datahandlers |-> DataHandlers(hw),
     labels       |-> hw.labels,
     defines      |-> hw.defines]

\* C23: no step of generate_app changes the normalized target: the inputs,
\* outputs, data handlers, labels and defines are after the step what they
\* were before it; the defines that generate_app writes for a target with a
\* MIDI port are the ones run has written already.
C23_TargetUnchanged ==
    [][NextApp => TargetTables(app_hw') = TargetTables(app_hw)]_vars

\* an app of a target with a MIDI port and the USB transport, past the place
\* where generate_app writes the define
C23_Witness ==
    /\ app_pc = "emitted"
    /\ app_config.midiuse = "usb"
    /\ Defined(app_hw.defines, "OOPSY_TARGET_HAS_MIDI_INPUT")
    /\ Defined(app_hw.defines, "OOPSY_TARGET_USES_MIDI_USB")
    /\ DsyMidiIn \in DOMAIN app_nodes

(***************************************************************************)
(* C24: node names as keys of the graph                                    *)
(***************************************************************************)
\* one node for each input, data handler, output, raw channel and MIDI port
ExpectedNodeCount ==
    Len(app_hw.inputs.keys) + Len(DataHandlers(app_hw).keys)
        + Len(app_hw.outputs.keys) + 2 * app_hw.defines.OOPSY_IO_COUNT
        + Len(MidiIns(app_hw)) + Len(MidiOuts(app_hw))

\* C24: after the nodes of the target are instantiated the graph holds one
\* node for each hardware input, data handler, hardware output, raw audio
\* input, raw audio output and MIDI port; the node of every hardware input
\* is the one made from its table entry, with a `to` list, and the node of
\* every hardware output has its `from` list; and the automap fill-pass, like
\* the registration of the parameters, never finds a node without the list
\* it reads.
C24_NamesAreUniqueKeys ==
    /\ app_pc = "daisy" =>
           /\ Cardinality(DOMAIN app_nodes) = ExpectedNodeCount
           /\ \A k \in Range(app_hw.inputs.keys) :
                  /\ "to" \in DOMAIN app_nodes[k]
                  /\ "automap" \in DOMAIN app_nodes[k]
           /\ \A k \in Range(app_hw.outputs.keys) :
                  "from" \in DOMAIN app_nodes[k]
    /\ app_pc # "failed"

(***************************************************************************)
(* C25: the last match in order is the longest prefix                      *)
(***************************************************************************)
\* the keys of the table that begin the label
PrefixKeys == {k \in Range(lr_table.keys) :
                 IsPrefix(k, MatchedLabel(lr_result.site, lr_label))}

\* C25: the keys being made of identifier characters, a resolution with at
\* least one key that is a prefix of the label selects the longest key that
\* is a prefix of the label.
C25_LongestPrefixWins ==
    (lr_runs > 0 /\ PrefixKeys # {}) =>
        /\ lr_result.sel.key \in PrefixKeys
        /\ \A k \in PrefixKeys : Len(k) <= Len(lr_result.sel.key)

\* three keys that begin the label, given in another order than by length
C25_Witness ==
    /\ lr_runs > 0
    /\ lr_table.keys = <<<<"a", "_", "b">>, <<"a">>, <<"a", "_">>>>
    /\ lr_label = <<"a", "_", "b", "_", "x">>
    /\ lr_result.sel.key = <<"a", "_", "b">>

(***************************************************************************)
(* C26: forward and backward references                                    *)
(***************************************************************************)
\* the nodes that feed the patch, and the nodes of the patch that are fed
FeedingNodes == Range(app_daisy.device_inputs) \cup Range(app_daisy.audio_ins)

FedNodes == Range(app_rnbo.audio_ins) \cup Range(app_rnbo.params)

AllBuffers == Range(app_daisy.audio_outs) \cup Range(app_audio_outs)

\* C26: in the finished graph every inlet or parameter node n is in the `to`
\* list of a hardware or raw input s once when the src of n is s and not at
\* all otherwise; a buffer b is in the `from` list of a hardware output o
\* exactly when o is in the `to` list of b.
C26_ReferencesAgree ==
    app_pc = "emitted" =>
        /\ \A n \in FedNodes : \A s \in FeedingNodes :
               Count(app_nodes[s].to, n)
                   = IF Get(app_nodes[n], "src") = s THEN 1 ELSE 0
        /\ \A b \in AllBuffers : \A o \in Range(app_daisy.device_outs) :
               (b \in Range(app_nodes[o].from)) <=> (o \in Range(app_nodes[b].to))

\* a parameter bound to an input by its label, another bound to another
\* input by the fill pass, and an outlet that feeds the LED
C26_Witness ==
    /\ app_pc = "emitted"
    /\ \E p, q \in Range(app_rnbo.params) :
           /\ p # q
           /\ app_patch.params[1].name = <<"k", "_", "a">>
           /\ p = app_rnbo.params[1]
           /\ app_nodes[p].src = <<"k">>
           /\ Truthy(app_nodes[q].src)
           /\ app_nodes[q].src \in Range(app_daisy.device_inputs) \ {<<"k">>}
    /\ app_nodes[<<"l", "e", "d">>].from = <<DsyOut(1)>>

(***************************************************************************)
(* C27: the sign of the step size                                          *)
(***************************************************************************)
\* C27: the step size of every parameter node is strictly positive, whatever
\* minimum, maximum and initial value the descriptor declares or omits.
C27_StepsizePositive ==
    HasParamNode => RatLess(Num(0), TheParamNode.stepsize)

(***************************************************************************)
(* The script as a module: module.exports, tryRun and the outcome of run   *)
(***************************************************************************)
\* let retryCount = 5
retryCount == 5

NoTimer == -1

\* the words of an argument list: two keywords of the switch of run, a patch
\* that exists, a path that does not exist and a target file that exists and
\* is not JSON
ArgWords == {"help", "pod", "a.cpp", "gone.cpp", "bad.json"}

ExistingFiles == {"a.cpp", "bad.json"}

\* path.parse(arg).ext
Ext(arg) ==
    CASE arg = "a.cpp" -> ".cpp"
      [] arg = "gone.cpp" -> ".cpp"
      [] arg = "bad.json" -> ".json"
      [] OTHER -> ""

\* args.forEach(arg => { switch (arg) ... }): st is what the loop has set so
\* far; process.exit ends the loop and the process
RECURSIVE ParseArgs(_, _)
ParseArgs(args, st) ==
    IF args = <<>> THEN st
    ELSE LET arg == Head(args)
         IN  IF arg = "help" THEN [st EXCEPT !.exit = TRUE]
             ELSE IF arg = "pod"
                  THEN ParseArgs(Tail(args), [st EXCEPT !.target = arg])
             ELSE IF arg \notin ExistingFiles THEN [st EXCEPT !.exit = TRUE]
             ELSE IF Ext(arg) = ".json"
                  THEN ParseArgs(Tail(args),
                                 [st EXCEPT !.target_path = arg, !.target = ""])
             ELSE IF Ext(arg) = ".cpp"
                  THEN ParseArgs(Tail(args),
                                 [st EXCEPT !.cpps = Append(@, arg)])
             ELSE ParseArgs(Tail(args), st)

\* how one call of run ends: "ok" when it returns, "exit" when it ends the
\* process, otherwise the exception it throws
RunOutcome(args, lib) ==
    LET st == ParseArgs(args, [exit |-> FALSE, target |-> "", target_path |-> "",
                               cpps |-> <<>>])
    IN  IF args = <<>> THEN "ok"
        ELSE IF st.exit THEN "exit"
        ELSE IF st.cpps = <<>> THEN "TypeError"
        ELSE IF ~lib THEN "RNBOLibError"
        ELSE IF st.target_path = "bad.json" THEN "SyntaxError"
        ELSE "ok"

\* whether a run that returned has moved the RNBO sources into the build path
MovesLib(args) == args # <<>>

\* function tryRun(resolve, reject), up to the setTimeout
TryRun(count, interval) ==
    IF count - 1 > 0
    THEN [retryCount |-> count - 1, timer |-> interval, reject |-> FALSE]
    ELSE [retryCount |-> count - 1, timer |-> NoTimer, reject |-> TRUE]

\* resolve and reject settle a pending promise and leave a settled one alone
Settle(promise, how) == IF promise = "pending" THEN how ELSE promise

MaxArgs == 2

InitTryRun ==
    /\ tr_args \in UNION {[1..n -> ArgWords] : n \in 0..MaxArgs}
    /\ tr_lib \in BOOLEAN
    /\ tr_retryCount = retryCount
    /\ tr_interval = 0
    /\ tr_timer = NoTimer
    /\ tr_promise = "none"
    /\ tr_value = ""
    /\ tr_runs = <<>>
    /\ tr_settles = 0
    /\ tr_alive = TRUE
    /\ IdleLabel
    /\ IdleParam
    /\ IdleApp
    /\ IdleNorm
    /\ IdleRun
    /\ IdleExport

\* module.exports: the promise is made and its executor calls tryRun
Call ==
    /\ tr_promise = "none"
    /\ LET t == TryRun(tr_retryCount, tr_interval)
       IN  /\ tr_retryCount' = t.retryCount
           /\ tr_timer' = t.timer
           /\ tr_promise' = "pending"
    /\ UNCHANGED <<tr_args, tr_lib, tr_interval, tr_value, tr_runs, tr_settles,
                   tr_alive, lrVars, ppVars, appVars, nzVars, runVars, exVars>>

\* the function given to setTimeout: one attempt of run and what follows it
Timeout ==
    /\ tr_alive
    /\ tr_timer # NoTimer
    /\ LET outcome == RunOutcome(tr_args, tr_lib)
           t       == TryRun(tr_retryCount, 1000)
       IN  /\ tr_runs' = Append(tr_runs, outcome)
           /\ tr_lib' = (tr_lib /\ ~(outcome = "ok" /\ MovesLib(tr_args)))
           /\ CASE outcome = "ok" ->
                     /\ tr_promise' = Settle(tr_promise, "fulfilled")
                     /\ tr_settles' = tr_settles + 1
                     /\ tr_timer' = NoTimer
                     /\ UNCHANGED <<tr_interval, tr_retryCount, tr_value,
                                    tr_alive>>
                [] outcome = "exit" ->
                     /\ tr_alive' = FALSE
                     /\ tr_timer' = NoTimer
                     /\ UNCHANGED <<tr_interval, tr_retryCount, tr_promise,
                                    tr_value, tr_settles>>
                [] outcome = "RNBOLibError" ->
                     /\ tr_interval' = 1000
                     /\ tr_retryCount' = t.retryCount
                     /\ tr_timer' = t.timer
                     /\ tr_promise' = IF t.reject
                                      THEN Settle(tr_promise, "rejected")
                                      ELSE tr_promise
                     /\ tr_value' = IF t.reject /\ tr_promise = "pending"
                                    THEN "Error looking for RNBO Libs."
                                    ELSE tr_value
                     /\ tr_settles' = tr_settles + (IF t.reject THEN 1 ELSE 0)
                     /\ UNCHANGED tr_alive
                [] OTHER ->
                     /\ tr_interval' = 1000
                     /\ tr_timer' = NoTimer
                     /\ tr_promise' = Settle(tr_promise, "rejected")
                     /\ tr_value' = IF tr_promise = "pending" THEN outcome
                                    ELSE tr_value
                     /\ tr_settles' = tr_settles + 1
                     /\ UNCHANGED <<tr_retryCount, tr_alive>>
    /\ UNCHANGED <<tr_args, lrVars, ppVars, appVars, nzVars, runVars, exVars>>

\* the export of the patch writes the RNBO sources while the call waits
LibArrives ==
    /\ tr_alive
    /\ tr_promise = "pending"
    /\ ~tr_lib
    /\ tr_lib' = TRUE
    /\ UNCHANGED <<tr_args, tr_retryCount, tr_interval, tr_timer, tr_promise,
                   tr_value, tr_runs, tr_settles, tr_alive, lrVars, ppVars,
                   appVars, nzVars, runVars, exVars>>

NextTryRun == Call \/ Timeout \/ LibArrives

SpecTryRun == InitTryRun /\ [][NextTryRun]_vars

\* the call is made and node fires the timers that are due
SpecTryRunFair == SpecTryRun /\ WF_vars(Call) /\ WF_vars(Timeout)

(***************************************************************************)
(* C28: the promise of a call                                              *)
(***************************************************************************)
Settled == tr_promise \in {"fulfilled", "rejected"}

\* the parts of the statement that say what may happen
C28_Attempts ==
    /\ [](tr_settles <= 1)
    /\ [](Len(tr_runs) <= retryCount - 1)
    /\ [][Timeout =>
            /\ tr_promise = "pending"
            /\ tr_runs # <<>> => tr_runs[Len(tr_runs)] = "RNBOLibError"
            /\ LET outcome == tr_runs'[Len(tr_runs')]
               IN  /\ outcome = "ok" => tr_promise' = "fulfilled"
                   /\ outcome \notin {"ok", "exit", "RNBOLibError"}
                          => tr_promise' = "rejected" /\ tr_timer' = NoTimer
                   /\ (outcome = "RNBOLibError"
                         /\ Len(tr_runs') = retryCount - 1)
                          => tr_promise' = "rejected"]_vars

\* C28: the promise of a call is settled in the end and settled once, after
\* at most 4 attempts of run; an attempt follows only an attempt that failed
\* for the missing RNBO sources, an attempt that succeeds resolves the
\* promise, any other error rejects it with no further attempt, and it is
\* rejected when the attempts are used up.
C28_SettledOnce ==
    /\ (tr_promise = "pending") ~> Settled
    /\ C28_Attempts

(***************************************************************************)
(* The patcher front-end: configure and the export task doExport           *)
(***************************************************************************)
\* const timeout = 20
timeout == 20

ConfNames == {"a", "b"}

MaxConfigurations == 3

\* what the task sends and posts: the export message of a configuration,
\* "finished export", the build name on outlet 1, the build arguments on
\* outlet 0, and the time-out error
Event(ev, conf) == [ev |-> ev, conf |-> conf]

\* fileExists(exportFilePath): the file carries the export name
FileExists(names, files, k) == names[k + 1] \in files

\* a variant of activeConf++ that steps over a configuration
ActiveConfAfter_skip(k) == k + 2

\* activeConf++
ActiveConfAfter(k) == k + 1

\* a variant of the time-out test that lets one more tick pass
Expired_late(count) == count < -1

\* --timeOutCount < 0, given the count after the decrement
Expired(count) == count < 0

InitExport ==
    /\ ex_names \in UNION {[1..n -> ConfNames] : n \in 0..MaxConfigurations}
    /\ ex_files \in SUBSET ConfNames
    /\ ex_done = <<>>
    /\ ex_activeConf = 0
    /\ ex_timeOutCount = 0
    /\ ex_interval = 0
    /\ ex_task = "none"
    /\ ex_log = <<>>
    /\ ex_quiet = 0
    /\ IdleLabel
    /\ IdleParam
    /\ IdleApp
    /\ IdleNorm
    /\ IdleRun
    /\ IdleTry

\* bang: configure(); it returns early for a patcher that was never saved
\* and for a patcher without rnbo~ objects, and starts the task otherwise
Configure ==
    /\ ex_task = "none"
    /\ \E saved \in BOOLEAN :
           IF saved /\ Len(ex_names) >= 1
           THEN /\ ex_done' = [i \in 1..Len(ex_names) |-> "undefined"]
                /\ ex_activeConf' = 0
                /\ ex_timeOutCount' = timeout
                /\ ex_interval' = 10
                /\ ex_task' = "running"
           ELSE UNCHANGED <<ex_done, ex_activeConf, ex_timeOutCount,
                            ex_interval, ex_task>>
    /\ UNCHANGED <<ex_names, ex_files, ex_log, ex_quiet, lrVars, ppVars,
                   appVars, nzVars, runVars, trVars>>

\* one tick of the task: doExport
DoExport ==
    /\ ex_task = "running"
    /\ LET k        == ex_activeConf
           done     == ex_done[k + 1]
           start    == done = "undefined"
           seen     == done = "false" /\ FileExists(ex_names, ex_files, k)
           active   == IF seen THEN ActiveConfAfter(k) ELSE k
           last     == seen /\ active >= Len(ex_names)
           count    == (IF seen THEN timeout ELSE ex_timeOutCount) - 1
           cancel1  == IF start THEN FALSE
                       ELSE IF done = "false" THEN last
                       ELSE TRUE
           cancel   == cancel1 \/ Expired(count) \/ active > Len(ex_names)
           sent     == IF start THEN <<Event("export", k)>>
                       ELSE IF last
                            THEN <<Event("finished", k), Event("name", -1),
                                   Event("args", -1)>>
                       ELSE IF seen THEN <<Event("finished", k)>>
                       ELSE <<>>
           posted   == IF Expired(count) THEN <<Event("timeout", -1)>> ELSE <<>>
       IN  /\ ex_interval' = 1000
           /\ ex_done' = IF start THEN [ex_done EXCEPT ![k + 1] = "false"]
                         ELSE IF seen THEN [ex_done EXCEPT ![k + 1] = "true"]
                         ELSE ex_done
           /\ ex_activeConf' = active
           /\ ex_timeOutCount' = count
           /\ ex_log' = ex_log \o sent \o posted
           /\ ex_quiet' = IF seen THEN 1 ELSE ex_quiet + 1
           /\ ex_task' = IF cancel THEN "cancelled" ELSE "running"
    /\ UNCHANGED <<ex_names, ex_files, lrVars, ppVars, appVars, nzVars,
                   runVars, trVars>>

\* rnbo~ writes the file of an export that was asked for
FileWritten ==
    /\ ex_task = "running"
    /\ \E i \in 1..Len(ex_names) :
           /\ ex_done[i] # "undefined"
           /\ ex_names[i] \notin ex_files
           /\ ex_files' = ex_files \cup {ex_names[i]}
    /\ UNCHANGED <<ex_names, ex_done, ex_activeConf, ex_timeOutCount,
                   ex_interval, ex_task, ex_log, ex_quiet, lrVars, ppVars,
                   appVars, nzVars, runVars, trVars>>

NextExport == Configure \/ DoExport \/ FileWritten

SpecExport == InitExport /\ [][NextExport]_vars

\* Max runs a repeating task again until it is cancelled
SpecExportFair == SpecExport /\ WF_vars(DoExport)

(***************************************************************************)
(* C29: the order of the exports                                           *)
(***************************************************************************)
\* the positions of the log with the event ev of configuration conf
Positions(ev, conf) ==
    {i \in 1..Len(ex_log) : ex_log[i] = Event(ev, conf)}

Configurations == 0..(Len(ex_names) - 1)

\* C29: exports are started one at a time in the order of the configurations:
\* the export message of configuration k+1 is sent only after the file of
\* configuration k was seen, no export message is sent twice, and the build
\* name and the build arguments are sent at most once and only after the
\* file of every configuration was seen.
C29_OneAtATime ==
    ex_task \in {"running", "cancelled"} =>
        /\ \A k \in Configurations :
               /\ Cardinality(Positions("export", k)) <= 1
               /\ \A i \in Positions("export", k) :
                      /\ k > 0 => \E j \in Positions("finished", k - 1) : j < i
                      /\ \A l \in Configurations : \A j \in Positions("export", l) :
                             l < k => j < i
        /\ \A ev \in {"name", "args"} :
               /\ Cardinality(Positions(ev, -1)) <= 1
               /\ \A i \in Positions(ev, -1) : \A k \in Configurations :
                      \E j \in Positions("finished", k) : j < i

\* three configurations exported and the build arguments sent
C29_Witness ==
    /\ ex_task = "cancelled"
    /\ Len(ex_names) = 3
    /\ Positions("args", -1) # {}
    /\ \A k \in Configurations : Positions("export", k) # {}

(***************************************************************************)
(* C30: the task stops                                                     *)
(***************************************************************************)
\* the tick that sees the file of the last configuration
SeesLast ==
    /\ Positions("finished", Len(ex_names) - 1) = {}
    /\ ex_log' # ex_log
    /\ \E i \in (Len(ex_log) + 1)..Len(ex_log') :
           ex_log'[i] = Event("finished", Len(ex_names) - 1)

\* C30: the task always stops: it cancels itself on the tick that sees the
\* file of the last configuration, or else on the 21st tick since the task
\* started or since the tick that saw the latest finished export; a task
\* that timed out never sends the build arguments.
C30_TaskStops ==
    /\ (ex_task = "running") ~> (ex_task = "cancelled")
    /\ [][DoExport =>
            (ex_task' = "cancelled" <=> (SeesLast \/ ex_quiet' = timeout + 1))]_vars
    /\ [](Positions("timeout", -1) # {} => Positions("args", -1) = {})

\* a task that timed out after its first export finished
C30_Witness ==
    /\ ex_task = "cancelled"
    /\ Positions("timeout", -1) # {}
    /\ Positions("finished", 0) # {}
    /\ ex_quiet = timeout + 1

====
